---- MODULE Spec2Model ----
(***************************************************************************)
(* A model of the block-STM parallel executor (package blockstm):          *)
(* ParallelExecutor.Prepare / Step, the worker goroutines, the settle      *)
(* goroutine and executeParallelWithCheck, over the task status tracker    *)
(* and the multi-version store; of checkStateSyncOnRange (package eth) and *)
(* of the QMDB key-value database (package qmdb).                          *)
(***************************************************************************)
EXTENDS Integers, Sequences, FiniteSets, TLC

VARIABLES
    pe,        \* the ParallelExecutor: trackers, store, records, channels
    work,      \* per transaction: the execution a worker is running, if any
    owed,      \* per lane: workers that pushed a result and still owe its token
    live,      \* per lane: worker goroutines that have not returned
    settleWg,  \* settleWg counter
    settleLive,\* the settle goroutine has been started and has not returned
    settled,   \* the Settle() calls made so far, in order
    pc,        \* position of executeParallelWithCheck
    ret,       \* what executeParallelWithCheck returned: result and err
    forced,    \* number of executions that ended by the task's own decision
    obs,       \* observations of the run the properties refer to
    ss,        \* checkStateSyncOnRange: its arguments, goroutines and result
    qm,        \* the QMDB database, one batch on it, and the calls made
    hws,       \* the Heimdall websocket client, its reader and its callers
    dg,        \* a TxnInputOutput and what GetDep, BuildDAG, LongestPath made of it
    fb         \* one call of findBoundaryStateSync and its fetches

vars == <<pe, work, owed, live, settleWg, settleLive, settled, pc, ret, forced, obs,
          ss, qm, hws, dg, fb>>

\* the executor's variables, and those of the other components
executor == <<pe, work, owed, live, settleWg, settleLive, settled, pc, ret, forced, obs>>
beside == <<ss, qm, hws, dg, fb>>

\* what the steps of one component leave alone
besideStateSync == <<executor, qm, hws, dg, fb>>
besideQMDB == <<executor, ss, hws, dg, fb>>
besideWS == <<executor, ss, qm, dg, fb>>
besideDAG == <<executor, ss, qm, hws, fb>>
besideBoundary == <<executor, ss, qm, hws, dg>>

\* checkStateSyncOnRange has not been called; no database has been created
NotCalled == [mpc |-> "idle"]
NotCreated == [st |-> "none"]
NotConnected == [rpc |-> "none"]
NotBuilt == [dpc |-> "none"]
NotSearching == [bpc |-> "none"]

----------------------------------------------------------------------------
(* Bounds of the model *)

NumTasks == 4
NumKeys == 3
MaxForced == 2

(* Program constants *)
numGoProcs == 2
numSpeculativeProcs == 8

Tx == 0 .. (NumTasks - 1)
\* keys 1 .. NumKeys are shared by the tasks of a conflicting block; a block
\* of tasks on pairwise disjoint keys needs one key for each task
Keys == 1 .. (IF NumKeys > NumTasks THEN NumKeys ELSE NumTasks)

SetMin(S) == CHOOSE x \in S : \A y \in S : x <= y
SetMax(S) == CHOOSE x \in S : \A y \in S : x >= y

----------------------------------------------------------------------------
(* ExecTask: the transaction bodies handed to the executor.  A body reads  *)
(* the keys of ReadList in order and writes the keys of WriteKeys, which   *)
(* depend on what the reads observed.  A block of tasks names the key each *)
(* body reads, the key it writes when it saw the write of the transaction  *)
(* right below it (hit) and the key it writes otherwise (miss).            *)

Block(k) == [key |-> [t \in Tx |-> (t % k) + 1],
             hit |-> [t \in Tx |-> 1],
             miss |-> [t \in Tx |-> k]]

\* every task reads and writes a key of its own
DisjointBlock == [key |-> [t \in Tx |-> t + 1],
                  hit |-> [t \in Tx |-> t + 1],
                  miss |-> [t \in Tx |-> t + 1]]

Blocks == {Block(k) : k \in 2 .. NumKeys}

ReadList(tx) == << pe.tasks.key[tx] >>

\* the body saw the write of the transaction right below it
SawPrevious(tx, rds) == \E rd \in rds : rd.kind = "map" /\ rd.v.tx = tx - 1

WriteKeys(tx, rds) ==
    IF SawPrevious(tx, rds) THEN {pe.tasks.hit[tx]} ELSE {pe.tasks.miss[tx]}

Sender(tx) == tx % 2

Dependencies(tx) == IF tx > 0 /\ tx % 2 = 0 THEN {tx - 1} ELSE {}

----------------------------------------------------------------------------
(* Task status tracker *)

makeStatusManager(n) ==
    [pending |-> 0 .. (n - 1), inProgress |-> {}, complete |-> {}, dependency |-> {}]

minPending(m) == IF m.pending = {} THEN -1 ELSE SetMin(m.pending)

takeNextPending(m) ==
    IF m.pending = {} THEN m
    ELSE [m EXCEPT !.pending = @ \ {SetMin(m.pending)},
                   !.inProgress = @ \cup {SetMin(m.pending)}]

maxAllComplete(m) ==
    LET ok == {x \in Tx : \A y \in 0 .. x : y \in m.complete}
    IN IF ok = {} THEN -1 ELSE SetMax(ok)

pushPending(m, tx) == [m EXCEPT !.pending = @ \cup {tx}]

markComplete(m, tx) ==
    [m EXCEPT !.inProgress = @ \ {tx}, !.complete = @ \cup {tx}]

clearComplete(m, tx) == [m EXCEPT !.complete = @ \ {tx}]

clearInProgress(m, tx) == [m EXCEPT !.inProgress = @ \ {tx}]

clearPending(m, tx) == [m EXCEPT !.pending = @ \ {tx}]

checkInProgress(m, tx) == tx \in m.inProgress
checkPending(m, tx) == tx \in m.pending
checkComplete(m, tx) == tx \in m.complete
countComplete(m) == Cardinality(m.complete)

\* dependency holds the pairs <<blocker, blocked>>
blockers(m, tx) == {d[1] : d \in {e \in m.dependency : e[2] = tx}}
isBlocked(m, tx) == blockers(m, tx) # {}

\* whether addDependencies(blocker, dependent) records the dependency
addsDependency(m, blocker, dependent) == ~checkComplete(m, blocker)

addDependencies(m, blocker, dependent) ==
    IF addsDependency(m, blocker, dependent)
    THEN [m EXCEPT !.dependency = @ \cup {<<blocker, dependent>>}]
    ELSE m

removeDependency(m, tx) ==
    LET rest == {d \in m.dependency : d[1] # tx}
        freed == {d[2] : d \in {e \in m.dependency :
                        e[1] = tx /\ ~\E r \in rest : r[2] = e[2]}}
    IN [m EXCEPT !.dependency = rest, !.pending = @ \cup freed]

getRevalidationRange(m, txFrom) == {c \in m.complete : c >= txFrom}

pushPendingSet(m, set) ==
    [m EXCEPT !.complete = @ \ set, !.pending = @ \cup set]

----------------------------------------------------------------------------
(* Multi-version store: per key and transaction index, no entry, an        *)
(* ESTIMATE marker, or the value written by an incarnation.                *)

NoEntry == [f |-> "none"]
Estimate == [f |-> "est"]
Done(inc) == [f |-> "done", i |-> inc]

MakeMVHashMap == [k \in Keys |-> [t \in Tx |-> NoEntry]]

mvRead(mv, k, tx) ==
    LET W == {j \in Tx : j < tx /\ mv[k][j].f # "none"}
    IN IF W = {} THEN [status |-> "none"]
       ELSE LET j == SetMax(W)
            IN IF mv[k][j].f = "est"
               THEN [status |-> "dependency", depIdx |-> j]
               ELSE [status |-> "done", depIdx |-> j, incarnation |-> mv[k][j].i]

mvWrite(mv, k, v) == [mv EXCEPT ![k][v.tx] = Done(v.inc)]

mvMarkEstimate(mv, k, tx) == [mv EXCEPT ![k][tx] = Estimate]

mvDelete(mv, k, tx) == [mv EXCEPT ![k][tx] = NoEntry]

Version(tx, inc) == [tx |-> tx, inc |-> inc]

ReadDesc(k, r) ==
    IF r.status = "done"
    THEN [path |-> k, kind |-> "map", v |-> Version(r.depIdx, r.incarnation)]
    ELSE [path |-> k, kind |-> "storage", v |-> Version(-1, 0)]

WriteDesc(k, v) == [path |-> k, v |-> v]

Paths(ws) == {w.path : w \in ws}

MakeTxnInputOutput ==
    [inputs |-> [t \in Tx |-> {}], outputs |-> [t \in Tx |-> {}],
     allOutputs |-> [t \in Tx |-> {}]]

ValidateVersion(tx, io, mv) ==
    \A rd \in io.inputs[tx] :
        LET r == mvRead(mv, rd.path, tx)
        IN CASE r.status = "done" ->
                    rd.kind = "map" /\ rd.v = Version(r.depIdx, r.incarnation)
             [] r.status = "dependency" -> FALSE
             [] OTHER -> rd.kind = "storage"

hasNewWrite(txo, cmpSet) ==
    IF txo = {} THEN FALSE ELSE Paths(txo) \ Paths(cmpSet) # {}

----------------------------------------------------------------------------
(* ExecResult and ExecVersionView *)

NoDep == -1

ExecResult(err, dep, ver, rds, wrs) ==
    [err |-> err, dep |-> dep, ver |-> ver, txIn |-> rds, txOut |-> wrs,
     txAllOut |-> wrs]

\* a task no worker is executing; inc is the incarnation it last executed
Idle(inc) == [st |-> "idle", inc |-> inc]

\* Go's integer division truncates toward zero
GoDiv(a, b) == IF a >= 0 THEN a \div b ELSE -((-a) \div b)

Last(s) == s[Len(s)]
Front(s) == SubSeq(s, 1, Len(s) - 1)

----------------------------------------------------------------------------
(* NewParallelExecutor *)

NewParallelExecutor(tasks, metadata) ==
    [tasks |-> tasks,
     execTasks |-> makeStatusManager(NumTasks),
     validateTasks |-> makeStatusManager(0),
     mvh |-> MakeMVHashMap,
     lastTxIO |-> MakeTxnInputOutput,
     txIncarnations |-> [t \in Tx |-> 0],
     estimateDeps |-> [t \in Tx |-> <<>>],
     skipCheck |-> [t \in Tx |-> FALSE],
     lastSettled |-> -1,
     chTasks |-> <<>>,
     specTaskQueue |-> {},
     chSpeculativeTasks |-> 0,
     specReceived |-> 0,
     chSettle |-> <<>>,
     chResults |-> 0,
     resultQueue |-> {},
     closedTasks |-> FALSE,
     closedResults |-> FALSE,
     closedSettle |-> FALSE,
     metadata |-> metadata]

----------------------------------------------------------------------------
(* ParallelExecutor.Prepare *)

RECURSIVE addHints(_, _, _)
addHints(m, i, ds) ==
    IF ds = {} THEN m
    ELSE LET d == SetMin(ds)
         IN addHints(clearPending(addDependencies(m, d, i), i), i, ds \ {d})

\* the map of previous senders is created afresh for every task, so the
\* lookup of a task's sender in it never succeeds
prevSenderTx(i) == {}

RECURSIVE PrepareDeps(_, _, _)
PrepareDeps(m, metadata, i) ==
    IF i >= NumTasks THEN m
    ELSE IF metadata
         THEN PrepareDeps(addHints(m, i, Dependencies(i)), metadata, i + 1)
         ELSE LET prev == {j \in prevSenderTx(i) : Sender(j) = Sender(i)}
              IN PrepareDeps(IF prev # {}
                             THEN clearPending(addDependencies(m, SetMax(prev), i), i)
                             ELSE m,
                             metadata, i + 1)

View(p, tx) == Version(tx, p.txIncarnations[tx])

PrepareBootstrap(p) ==
    IF minPending(p.execTasks) # -1
    THEN [p EXCEPT !.execTasks = takeNextPending(@),
                   !.chTasks = Append(@, Version(minPending(p.execTasks), 0))]
    ELSE p

PreparePE(p) ==
    PrepareBootstrap([p EXCEPT !.execTasks = PrepareDeps(@, p.metadata, 0)])

----------------------------------------------------------------------------
(* ParallelExecutor.Step *)

\* abort with a known dependency: discard the recorded estimates above it
RECURSIVE DiscardEstimates(_, _, _)
DiscardEstimates(p, tx, dep) ==
    IF Len(p.estimateDeps[tx]) > 0 /\ Last(p.estimateDeps[tx]) > dep
    THEN DiscardEstimates(
            [p EXCEPT !.execTasks = removeDependency(@, Last(p.estimateDeps[tx])),
                      !.estimateDeps[tx] = Front(@)],
            tx, dep)
    ELSE p

\* C12 mutant: the estimate is not clamped below tx
NewEstimateUnclamped(estimate, tx) == estimate + GoDiv(estimate + tx, 2)

NewEstimate(estimate, tx) ==
    LET e == estimate + GoDiv(estimate + tx, 2)
    IN IF e >= tx THEN tx - 1 ELSE e

\* C27 mutant: an abort that leaves the incarnation counter as it is
AbortRequeueSameIncarnation(p, tx, added) ==
    [p EXCEPT !.execTasks = IF added THEN clearInProgress(@, tx)
                            ELSE pushPending(clearInProgress(@, tx), tx)]

\* C25 mutant: the aborted transaction is re-queued even when it is blocked
AbortRequeueAlways(p, tx, added) ==
    [p EXCEPT !.execTasks = pushPending(clearInProgress(@, tx), tx),
              !.txIncarnations[tx] = @ + 1]

AbortRequeue(p, tx, added) ==
    [p EXCEPT !.execTasks = IF added THEN clearInProgress(@, tx)
                            ELSE pushPending(clearInProgress(@, tx), tx),
              !.txIncarnations[tx] = @ + 1]

StepAbort(p, res) ==
    LET tx == res.ver.tx
    IN IF res.dep >= 0
       THEN LET q == DiscardEstimates(p, tx, res.dep)
                added == addsDependency(q.execTasks, res.dep, tx)
            IN AbortRequeue(
                 [q EXCEPT !.execTasks = addDependencies(@, res.dep, tx)], tx, added)
       ELSE LET estimate == IF Len(p.estimateDeps[tx]) > 0
                            THEN Last(p.estimateDeps[tx]) ELSE 0
                added == addsDependency(p.execTasks, estimate, tx)
            IN AbortRequeue(
                 [p EXCEPT !.execTasks = addDependencies(@, estimate, tx),
                           !.estimateDeps[tx] = Append(@, NewEstimate(estimate, tx))],
                 tx, added)

\* C7 mutant: the range starts one transaction too high
RevalidationRangeAbove(p, tx) == getRevalidationRange(p.execTasks, tx + 2)

\* C29 mutant: the range takes in the transactions below tx as well
RevalidationRangeFromZero(p, tx) == getRevalidationRange(p.execTasks, 0)

\* the executed transactions above tx, whose validation is to be repeated
RevalidationRange(p, tx) == getRevalidationRange(p.execTasks, tx + 1)

\* a re-execution wrote a key its previous incarnation did not
RevalidateOnNewWrite(p, res) ==
    LET tx == res.ver.tx
    IN IF hasNewWrite(res.txAllOut, p.lastTxIO.allOutputs[tx])
       THEN [p EXCEPT !.validateTasks =
                pushPendingSet(@, RevalidationRange(p, tx))]
       ELSE p

\* C6 mutant: the entries of keys no longer written are left in the store
NoDroppedKeys(prevWrite, txAllOut) == {}

\* C11 mutant: the comparison of the two write sets is the wrong way round
DroppedKeysSwapped(prevWrite, txAllOut) == Paths(txAllOut) \ Paths(prevWrite)

\* keys of the previous incarnation that are no longer written
DroppedKeys(prevWrite, txAllOut) == Paths(prevWrite) \ Paths(txAllOut)

RECURSIVE DeleteKeys(_, _, _)
DeleteKeys(mv, ks, tx) ==
    IF ks = {} THEN mv
    ELSE DeleteKeys(mvDelete(mv, SetMin(ks), tx), ks \ {SetMin(ks)}, tx)

\* C28 mutant: the all-write-set of a re-execution is not recorded
RecordOutputsFirstAllWrite(p, res) ==
    [p EXCEPT !.lastTxIO.outputs[res.ver.tx] = res.txOut,
              !.lastTxIO.allOutputs[res.ver.tx] =
                    IF res.ver.inc = 0 THEN res.txAllOut ELSE @]

RecordOutputs(p, res) ==
    [p EXCEPT !.lastTxIO.outputs[res.ver.tx] = res.txOut,
              !.lastTxIO.allOutputs[res.ver.tx] = res.txAllOut]

StepSuccess(p, res) ==
    LET tx == res.ver.tx
        p1 == [p EXCEPT !.lastTxIO.inputs[tx] = res.txIn]
        p2 == IF res.ver.inc = 0
              THEN RecordOutputs(p1, res)
              ELSE LET q == RevalidateOnNewWrite(p1, res)
                   IN RecordOutputs(
                        [q EXCEPT !.mvh = DeleteKeys(@,
                            DroppedKeys(q.lastTxIO.allOutputs[tx], res.txAllOut), tx)],
                        res)
    IN [p2 EXCEPT !.validateTasks = pushPending(@, tx),
                  !.execTasks = removeDependency(markComplete(@, tx), tx)]

\* C22 mutant: everything pending validation is validated
ToValidateAllPending(p) == p.validateTasks.pending

\* validation (the loop over toValidate)
ToValidate(p) ==
    {v \in p.validateTasks.pending : v <= maxAllComplete(p.execTasks)}

TakeToValidate(p) ==
    [p EXCEPT !.validateTasks.pending = @ \ ToValidate(p),
              !.validateTasks.inProgress = @ \cup ToValidate(p)]

RECURSIVE MarkEstimates(_, _, _)
MarkEstimates(mv, ks, tx) ==
    IF ks = {} THEN mv
    ELSE MarkEstimates(mvMarkEstimate(mv, SetMin(ks), tx), ks \ {SetMin(ks)}, tx)

\* C9 mutant: a failed validation that does not queue the transaction for
\* execution again
ValidationFailNoRetry(p, tx) ==
    [p EXCEPT !.mvh = MarkEstimates(@, Paths(p.lastTxIO.allOutputs[tx]), tx),
              !.validateTasks = clearInProgress(
                    pushPendingSet(@, RevalidationRange(p, tx)), tx),
              !.execTasks = clearComplete(@, tx),
              !.txIncarnations[tx] = @ + 1]

\* C24 mutant: a failed validation that leaves the writes of the transaction
\* in the store as they are
ValidationFailKeepsWrites(p, tx) ==
    [p EXCEPT !.validateTasks = clearInProgress(
                    pushPendingSet(@, RevalidationRange(p, tx)), tx),
              !.execTasks = pushPending(clearComplete(@, tx), tx),
              !.txIncarnations[tx] = @ + 1]

ValidationFail(p, tx) ==
    [p EXCEPT !.mvh = MarkEstimates(@, Paths(p.lastTxIO.allOutputs[tx]), tx),
              !.validateTasks = clearInProgress(
                    pushPendingSet(@, RevalidationRange(p, tx)), tx),
              !.execTasks = pushPending(clearComplete(@, tx), tx),
              !.txIncarnations[tx] = @ + 1]

\* C1 mutant: validation that accepts every recorded read-set
ValidationAlwaysPasses(p, tx) == TRUE

\* C16 mutant: the recorded reads are checked and fail for every task that
\* was dispatched speculatively
ValidationPassesBoth(p, tx) ==
    p.skipCheck[tx] /\ ValidateVersion(tx, p.lastTxIO, p.mvh)

ValidationPasses(p, tx) ==
    p.skipCheck[tx] \/ ValidateVersion(tx, p.lastTxIO, p.mvh)

ValidateOne(p, tx) ==
    IF ValidationPasses(p, tx)
    THEN [p EXCEPT !.validateTasks = markComplete(@, tx)]
    ELSE ValidationFail(p, tx)

RECURSIVE ValidateLoop(_, _)
ValidateLoop(p, S) ==
    IF S = {} THEN p
    ELSE ValidateLoop(ValidateOne(p, SetMin(S)), S \ {SetMin(S)})

Validations(p) == ValidateLoop(TakeToValidate(p), ToValidate(p))

\* settle the transactions that have been validated and will not run again
CanSettle(p, tx) ==
    ~(checkInProgress(p.execTasks, tx) \/ checkPending(p.execTasks, tx)
        \/ isBlocked(p.execTasks, tx))

RECURSIVE SettleLoop(_, _)
SettleLoop(p, maxValidated) ==
    IF p.lastSettled < maxValidated /\ CanSettle(p, p.lastSettled + 1)
    THEN SettleLoop([p EXCEPT !.lastSettled = @ + 1,
                              !.chSettle = Append(@, p.lastSettled + 1)],
                    maxValidated)
    ELSE p

AllDone(p) ==
    /\ countComplete(p.validateTasks) = NumTasks
    /\ countComplete(p.execTasks) = NumTasks

CloseIntake(p) == [p EXCEPT !.closedTasks = TRUE]

\* C23 mutant: the lowest pending transaction is sent to the priority workers
\* whether or not everything below it is validated
NextImmediateUnvalidated(p, maxValidated) ==
    LET nextTx == minPending(p.execTasks)
    IN IF nextTx # -1
       THEN [p EXCEPT !.execTasks = takeNextPending(@),
                      !.skipCheck[nextTx] = TRUE,
                      !.chTasks = Append(@, View(p, nextTx))]
       ELSE p

\* C33 mutant: the transaction sent to the priority workers stays pending
NextImmediateKeepsPending(p, maxValidated) ==
    LET nextTx == minPending(p.execTasks)
    IN IF nextTx # -1 /\ nextTx = maxValidated + 1
       THEN [p EXCEPT !.skipCheck[nextTx] = TRUE,
                      !.chTasks = Append(@, View(p, nextTx))]
       ELSE p

\* send the next immediate pending transaction to the priority workers
NextImmediate(p, maxValidated) ==
    LET nextTx == minPending(p.execTasks)
    IN IF nextTx # -1 /\ nextTx = maxValidated + 1
       THEN [p EXCEPT !.execTasks = takeNextPending(@),
                      !.skipCheck[nextTx] = TRUE,
                      !.chTasks = Append(@, View(p, nextTx))]
       ELSE p

\* the speculative loop never ends when nothing is pending or in progress
SpeculativeLoopSpins(p) ==
    minPending(p.execTasks) = -1 /\ p.execTasks.inProgress = {}

RECURSIVE SendSpeculative(_)
SendSpeculative(p) ==
    IF minPending(p.execTasks) # -1
    THEN SendSpeculative(
            [p EXCEPT !.execTasks = takeNextPending(@),
                      !.specTaskQueue = @ \cup {View(p, minPending(p.execTasks))},
                      !.chSpeculativeTasks = @ + 1])
    ELSE p

IsFatal(res) == res.err = "fatal"
IsAbort(res) == res.err = "abort"

\* a pointer is the empty sequence (nil) or the sequence of what it points to
NilResult == [TxIO |-> <<>>, Stats |-> <<>>, AllDeps |-> <<>>]

FinalResult(p) == [TxIO |-> <<p.lastTxIO>>, Stats |-> <<"stats">>, AllDeps |-> <<>>]

\* C4 mutant: the error is returned with what has been recorded so far
FatalReturnWithResult(p, res) == [result |-> FinalResult(p), err |-> res.err]

FatalReturn(p, res) == [result |-> NilResult, err |-> res.err]

\* C2 mutant: the executed transactions are settled before they are validated
StepProcessSettleExecuted(p, res) ==
    LET p1 == IF IsAbort(res) THEN StepAbort(p, res) ELSE StepSuccess(p, res)
        p2 == SettleLoop(p1, maxAllComplete(p1.execTasks))
    IN Validations(p2)

\* Step up to the test for completion: abort or success handling,
\* validation and settlement
StepProcess(p, res) ==
    LET p1 == IF IsAbort(res) THEN StepAbort(p, res) ELSE StepSuccess(p, res)
        p2 == Validations(p1)
    IN SettleLoop(p2, maxAllComplete(p2.validateTasks))

StepNext(p) == NextImmediate(p, maxAllComplete(p.validateTasks))

----------------------------------------------------------------------------
(* Observations *)

NoObs ==
    [stale |-> {}, wasStale |-> {}, failed |-> {},
     blockedOn |-> [t \in Tx |-> -1], abortedInc |-> [t \in Tx |-> -1],
     overlap |-> FALSE, dropped |-> {}, emptyPop |-> FALSE]

\* transactions above tx whose current execution has finished reading
CompletedAbove(p, w, tx) ==
    {j \in Tx : /\ j > tx
                /\ \/ j \in p.execTasks.complete
                   \/ \E r \in p.resultQueue : r.ver.tx = j /\ r.err = "nil"
                   \/ w[j].st = "flush"
                   \/ w[j].st = "push" /\ w[j].res.err = "nil"}

WriteSetChanged(p, res) ==
    /\ res.err = "nil"
    /\ res.ver.inc > 0
    /\ Paths(res.txAllOut) # Paths(p.lastTxIO.allOutputs[res.ver.tx])

ReallyValidated(p1) == {v \in ToValidate(p1) : ~p1.skipCheck[v]}

ObsStep(o, p, w, res) ==
    LET tx == res.ver.tx
        p1 == IF IsAbort(res) THEN StepAbort(p, res) ELSE StepSuccess(p, res)
        reportsBlocker == /\ IsAbort(res) /\ res.dep >= 0 /\ res.dep < tx
                          /\ res.dep \notin p.execTasks.complete
        newStale == IF WriteSetChanged(p, res) THEN CompletedAbove(p, w, tx) ELSE {}
        p2 == Validations(p1)
    IN [o EXCEPT
          !.stale = (@ \cup newStale) \ ReallyValidated(p1),
          !.wasStale = @ \cup newStale,
          !.failed = @ \cup {v \in Tx : p2.txIncarnations[v] > p1.txIncarnations[v]},
          !.blockedOn = [t \in Tx |->
                IF t = tx /\ reportsBlocker THEN res.dep
                ELSE IF t = tx /\ IsAbort(res) THEN -1
                ELSE IF ~IsAbort(res) /\ @[t] = tx THEN -1
                ELSE @[t]],
          !.abortedInc[tx] = IF IsAbort(res) THEN res.ver.inc ELSE @,
          !.dropped = @ \cup
                (IF ~IsAbort(res) /\ res.ver.inc > 0
                 THEN {<<k, tx>> : k \in DroppedKeys(p.lastTxIO.allOutputs[tx],
                                                     res.txAllOut)}
                 ELSE {})]

----------------------------------------------------------------------------
(* The worker goroutines *)

Lanes == {"go", "spec"}
LaneSize(l) == IF l = "go" THEN numGoProcs ELSE numSpeculativeProcs

\* the workers of a lane that are not waiting on its channel; pe.specReceived
\* counts the speculative workers that hold a token and have not popped yet
Busy(l) ==
    Cardinality({t \in Tx : work[t].st # "idle" /\ work[t].lane = l}) + owed[l]
      + (IF l = "spec" THEN pe.specReceived ELSE 0)
HasIdleWorker(l) == live[l] - Busy(l) > 0

TxnWrites(ver, rds) == {WriteDesc(k, ver) : k \in WriteKeys(ver.tx, rds)}

\* Execute has read everything: flush the write set, then push the result
AfterReads(l, ver, rds) ==
    LET res == ExecResult("nil", NoDep, ver, rds, TxnWrites(ver, rds))
    IN IF res.txAllOut = {}
       THEN [st |-> "push", lane |-> l, res |-> res]
       ELSE [st |-> "flush", lane |-> l, res |-> res, toFlush |-> Paths(res.txAllOut)]

Failed(l, ver, err, dep) ==
    [st |-> "push", lane |-> l, res |-> ExecResult(err, dep, ver, {}, {})]

Executing(l, ver) ==
    IF Len(ReadList(ver.tx)) = 0 THEN AfterReads(l, ver, {})
    ELSE [st |-> "exec", lane |-> l, ver |-> ver, pos |-> 1, rds |-> {}]

\* What Execute may do of the task's own accord, besides running its body:
\* report a conflict (with an index below its own, or with none) or fail.
\* F.max bounds the number of such executions in a run, F.may names the
\* tasks that may report a conflict, F.fatal tells whether a task may fail.
Outcomes(tx, F) ==
    {[kind |-> "run", dep |-> NoDep]}
      \cup (IF forced < F.max /\ tx \in F.may
            THEN {[kind |-> "abort", dep |-> d] : d \in -1 .. (tx - 1)} ELSE {})
      \cup (IF forced < F.max /\ F.fatal
            THEN {[kind |-> "fatal", dep |-> NoDep]} ELSE {})

AnyFault == [max |-> MaxForced, may |-> Tx, fatal |-> TRUE]
NoFault == [max |-> 0, may |-> {}, fatal |-> FALSE]
ConflictsOnly == [max |-> MaxForced + 1, may |-> {t \in Tx : t >= 2}, fatal |-> FALSE]

\* a worker takes the next task of its lane and calls Execute
Begin(l, v, F) ==
    /\ HasIdleWorker(l)
    /\ obs' = [obs EXCEPT !.overlap = @ \/ work[v.tx].st # "idle"]
    /\ \E o \in Outcomes(v.tx, F) :
          /\ work' = [work EXCEPT ![v.tx] =
                        IF o.kind = "run" THEN Executing(l, v)
                        ELSE Failed(l, v, o.kind, o.dep)]
          /\ forced' = IF o.kind = "run" THEN forced ELSE forced + 1
    /\ UNCHANGED <<owed, live, settleWg, settleLive, settled, pc, ret, beside>>

WorkerTake(F) ==
    /\ pe.chTasks # <<>>
    /\ pe' = [pe EXCEPT !.chTasks = Tail(@)]
    /\ Begin("go", Head(pe.chTasks), F)

SpecQueueMin(q) == CHOOSE v \in q : \A u \in q : v.tx <= u.tx

\* C40 mutant: a speculative worker goes on to Pop and leaves the token
WorkerReceiveSpeculativeKeepsToken ==
    /\ pe.chSpeculativeTasks > 0
    /\ HasIdleWorker("spec")
    /\ pe.specReceived < NumTasks
    /\ pe' = [pe EXCEPT !.specReceived = @ + 1]
    /\ UNCHANGED <<work, owed, live, settleWg, settleLive, settled, pc, ret, forced, obs,
                   beside>>

\* an iteration of the range loop over chSpeculativeTasks: a token is received
WorkerReceiveSpeculative ==
    /\ pe.chSpeculativeTasks > 0
    /\ HasIdleWorker("spec")
    /\ pe' = [pe EXCEPT !.chSpeculativeTasks = @ - 1, !.specReceived = @ + 1]
    /\ UNCHANGED <<work, owed, live, settleWg, settleLive, settled, pc, ret, forced, obs,
                   beside>>

\* doWork(pe.specTaskQueue.Pop()) by a worker that holds a token; heap.Pop of
\* an empty heap panics
WorkerTakeSpeculative(F) ==
    /\ pe.specReceived > 0
    /\ IF pe.specTaskQueue = {}
       THEN /\ pe' = [pe EXCEPT !.specReceived = @ - 1]
            /\ obs' = [obs EXCEPT !.emptyPop = TRUE]
            /\ UNCHANGED <<work, owed, live, settleWg, settleLive, settled, pc, ret,
                           forced, beside>>
       ELSE /\ pe' = [pe EXCEPT !.specReceived = @ - 1,
                                !.specTaskQueue = @ \ {SpecQueueMin(pe.specTaskQueue)}]
            /\ Begin("spec", SpecQueueMin(pe.specTaskQueue), F)

\* one read of the body against the multi-version store
ExecRead(tx) ==
    /\ work[tx].st = "exec"
    /\ LET w == work[tx]
           k == ReadList(tx)[w.pos]
           r == mvRead(pe.mvh, k, tx)
           rds == w.rds \cup {ReadDesc(k, r)}
       IN work' = [work EXCEPT ![tx] =
                IF r.status = "dependency"
                THEN Failed(w.lane, w.ver, "abort", r.depIdx)
                ELSE IF w.pos = Len(ReadList(tx))
                     THEN AfterReads(w.lane, w.ver, rds)
                     ELSE [w EXCEPT !.pos = @ + 1, !.rds = rds]]
    /\ UNCHANGED <<pe, owed, live, settleWg, settleLive, settled, pc, ret, forced, obs, beside>>

\* FlushMVWriteSet, one key at a time
Flush(tx) ==
    /\ work[tx].st = "flush"
    /\ LET w == work[tx]
           k == SetMin(w.toFlush)
       IN /\ pe' = [pe EXCEPT !.mvh = mvWrite(@, k, w.res.ver)]
          /\ work' = [work EXCEPT ![tx] =
                IF w.toFlush = {k}
                THEN [st |-> "push", lane |-> w.lane, res |-> w.res]
                ELSE [w EXCEPT !.toFlush = @ \ {k}]]
    /\ UNCHANGED <<owed, live, settleWg, settleLive, settled, pc, ret, forced, obs, beside>>

\* resultQueue.Push
PushResult(tx) ==
    /\ work[tx].st = "push"
    /\ pe' = [pe EXCEPT !.resultQueue = @ \cup {work[tx].res}]
    /\ owed' = [owed EXCEPT ![work[tx].lane] = @ + 1]
    /\ work' = [work EXCEPT ![tx] = Idle(work[tx].res.ver.inc)]
    /\ UNCHANGED <<live, settleWg, settleLive, settled, pc, ret, forced, obs, beside>>

\* chResults <- struct{}{}
SendToken(l) ==
    /\ owed[l] > 0
    /\ owed' = [owed EXCEPT ![l] = @ - 1]
    /\ pe' = [pe EXCEPT !.chResults = @ + 1]
    /\ UNCHANGED <<work, live, settleWg, settleLive, settled, pc, ret, forced, obs, beside>>

LaneEmpty(l) == IF l = "go" THEN pe.chTasks = <<>> ELSE pe.chSpeculativeTasks = 0

\* the range loop over a closed and drained channel ends: the worker returns
WorkerExit(l) ==
    /\ pe.closedTasks
    /\ LaneEmpty(l)
    /\ HasIdleWorker(l)
    /\ live' = [live EXCEPT ![l] = @ - 1]
    /\ UNCHANGED <<pe, work, owed, settleWg, settleLive, settled, pc, ret, forced, obs, beside>>

----------------------------------------------------------------------------
(* The settle goroutine *)

SettleOne ==
    /\ settleLive
    /\ pe.chSettle # <<>>
    /\ pe' = [pe EXCEPT !.chSettle = Tail(@)]
    /\ settled' = Append(settled, [tx |-> Head(pe.chSettle),
                                   inc |-> work[Head(pe.chSettle)].inc])
    /\ settleWg' = settleWg - 1
    /\ UNCHANGED <<work, owed, live, settleLive, pc, ret, forced, obs, beside>>

SettleExit ==
    /\ settleLive
    /\ pe.closedSettle
    /\ pe.chSettle = <<>>
    /\ settleLive' = FALSE
    /\ UNCHANGED <<pe, work, owed, live, settleWg, settled, pc, ret, forced, obs, beside>>

----------------------------------------------------------------------------
(* executeParallelWithCheck *)

InitExecutor(P) ==
    /\ pe \in P
    /\ work = [t \in Tx |-> Idle(-1)]
    /\ owed = [l \in Lanes |-> 0]
    /\ live = [l \in Lanes |-> 0]
    /\ settleWg = 0
    /\ settleLive = FALSE
    /\ settled = <<>>
    /\ pc = "new"
    /\ ret = [result |-> NilResult, err |-> "none"]
    /\ forced = 0
    /\ obs = NoObs

InitWith(B) ==
    /\ InitExecutor({NewParallelExecutor(b, md) : b \in B, md \in BOOLEAN})
    /\ ss = NotCalled
    /\ qm = NotCreated
    /\ hws = NotConnected
    /\ dg = NotBuilt
    /\ fb = NotSearching

Init == InitWith(Blocks)

Prepare ==
    /\ pc = "new"
    /\ pe' = PreparePE(pe)
    /\ live' = [l \in Lanes |-> LaneSize(l)]
    /\ settleWg' = NumTasks
    /\ settleLive' = TRUE
    /\ pc' = "loop"
    /\ UNCHANGED <<work, owed, settled, ret, forced, obs, beside>>

\* C17 mutant: a queue that hands out the result of the highest index
ResultQueueMax(q) == CHOOSE r \in q : \A u \in q : r.ver.tx >= u.ver.tx

\* resultQueue.Pop: heap.Pop of the lowest index, then the data stored for it
ResultQueueMin(q) == CHOOSE r \in q : \A u \in q : r.ver.tx <= u.ver.tx

\* one iteration of the loop over chResults: pop the lowest result and Step
Step ==
    /\ pc = "loop"
    /\ pe.chResults > 0
    /\ LET res == ResultQueueMin(pe.resultQueue)
           p0 == [pe EXCEPT !.chResults = @ - 1, !.resultQueue = @ \ {res}]
       IN IF IsFatal(res)
          THEN /\ pe' = p0
               /\ ret' = FatalReturn(p0, res)
               /\ pc' = "returned"
               /\ UNCHANGED obs
          ELSE LET p1 == StepProcess(p0, res)
               IN /\ obs' = ObsStep(obs, p0, work, res)
                  /\ UNCHANGED ret
                  /\ IF AllDone(p1)
                     THEN pe' = CloseIntake(p1) /\ pc' = "joinWorkers"
                     ELSE IF SpeculativeLoopSpins(StepNext(p1))
                          THEN pe' = StepNext(p1) /\ pc' = "spin"
                          ELSE pe' = SendSpeculative(StepNext(p1)) /\ pc' = "loop"
    /\ UNCHANGED <<work, owed, live, settleWg, settleLive, settled, forced, beside>>

\* workerWg.Wait() returns; close(chResults)
JoinWorkers ==
    /\ pc = "joinWorkers"
    /\ live["go"] + live["spec"] = 0
    /\ pe' = [pe EXCEPT !.closedResults = TRUE]
    /\ pc' = "joinSettle"
    /\ UNCHANGED <<work, owed, live, settleWg, settleLive, settled, ret, forced, obs, beside>>

\* C8 mutant: the result is returned without waiting for the Settle calls
JoinSettleNoWait ==
    /\ pc = "joinSettle"
    /\ pe' = [pe EXCEPT !.closedSettle = TRUE]
    /\ ret' = [result |-> FinalResult(pe), err |-> "nil"]
    /\ pc' = "returned"
    /\ UNCHANGED <<work, owed, live, settleWg, settleLive, settled, forced, obs, beside>>

\* settleWg.Wait() returns; close(chSettle); return the result
JoinSettle ==
    /\ pc = "joinSettle"
    /\ settleWg = 0
    /\ pe' = [pe EXCEPT !.closedSettle = TRUE]
    /\ ret' = [result |-> FinalResult(pe), err |-> "nil"]
    /\ pc' = "returned"
    /\ UNCHANGED <<work, owed, live, settleWg, settleLive, settled, forced, obs, beside>>

Run(F) ==
    \/ Prepare
    \/ WorkerTake(F)
    \/ WorkerReceiveSpeculative
    \/ WorkerTakeSpeculative(F)
    \/ \E tx \in Tx : ExecRead(tx)
    \/ \E tx \in Tx : Flush(tx)
    \/ \E tx \in Tx : PushResult(tx)
    \/ \E l \in Lanes : SendToken(l)
    \/ \E l \in Lanes : WorkerExit(l)
    \/ SettleOne
    \/ SettleExit
    \/ Step
    \/ JoinWorkers
    \/ JoinSettle

Next == Run(AnyFault)

Spec == Init /\ [][Next]_vars

\* runs in which tasks 2 and above report conflicts of their own accord
NextConflicts == Run(ConflictsOnly)

SpecConflicts == Init /\ [][NextConflicts]_vars

\* runs in which a task aborts only by reading an ESTIMATE entry and none
\* fails, under fair scheduling of the goroutines
NextLive == Run(NoFault)

\* the control loop is a goroutine like the others: Step is taken whenever it
\* stays possible.  StepEnabled is ENABLED <<Step>>_vars (Step consumes a
\* token of chResults whenever its guard holds), so the conjunct for Step
\* below is WF_vars(Step) written out.
StepEnabled == pc = "loop" /\ pe.chResults > 0

Fairness ==
    /\ WF_vars(Prepare)
    /\ WF_vars(WorkerTake(NoFault))
    /\ WF_vars(WorkerReceiveSpeculative)
    /\ WF_vars(WorkerTakeSpeculative(NoFault))
    /\ \A tx \in Tx : WF_vars(ExecRead(tx)) /\ WF_vars(Flush(tx)) /\ WF_vars(PushResult(tx))
    /\ \A l \in Lanes : WF_vars(SendToken(l)) /\ WF_vars(WorkerExit(l))
    /\ WF_vars(SettleOne)
    /\ WF_vars(SettleExit)
    /\ ([]<>~StepEnabled) \/ ([]<><<Step>>_vars)
    /\ WF_vars(JoinWorkers)
    /\ WF_vars(JoinSettle)

LiveSpec == Init /\ [][NextLive]_vars /\ Fairness

\* executeParallelWithCheck on any task list, the empty one included: with no
\* task it returns at once, and the executor is neither prepared nor stepped
EmptyTasks == [key |-> <<>>, hit |-> <<>>, miss |-> <<>>]

len(tasks) == Cardinality(DOMAIN tasks.key)

\* ParallelExecutionResult{MakeTxnInputOutput(len(tasks)), nil, nil} for no task
EmptyResult ==
    [TxIO |-> << [inputs |-> <<>>, outputs |-> <<>>, allOutputs |-> <<>>] >>,
     Stats |-> <<>>,
     AllDeps |-> <<>>]

ReturnEmpty ==
    /\ pc = "new"
    /\ len(pe.tasks) = 0
    /\ ret' = [result |-> EmptyResult, err |-> "nil"]
    /\ pc' = "returned"
    /\ UNCHANGED <<pe, work, owed, live, settleWg, settleLive, settled, forced, obs, beside>>

InitAnyTasks == InitWith(Blocks \cup {EmptyTasks})

NextAnyTasks ==
    \/ ReturnEmpty
    \/ len(pe.tasks) # 0 /\ NextLive

SpecAnyTasks == InitAnyTasks /\ [][NextAnyTasks]_vars

\* a block on pairwise disjoint keys whose tasks never abort on their own
InitDisjoint == InitWith({DisjointBlock})

SpecDisjoint == InitDisjoint /\ [][NextLive]_vars

TypeOK ==
    /\ Len(pe.chTasks) <= NumTasks
    /\ Cardinality(pe.specTaskQueue) <= NumTasks
    /\ pe.chResults <= NumTasks
    /\ Len(pe.chSettle) <= NumTasks

NoOverlap == ~obs.overlap

NoSpin == pc # "spin"

----------------------------------------------------------------------------
(* Sequential execution: every task once, at incarnation 0, in index order *)

RECURSIVE SeqReads(_, _, _)
SeqReads(mv, tx, i) ==
    IF i > Len(ReadList(tx)) THEN {}
    ELSE {ReadDesc(ReadList(tx)[i], mvRead(mv, ReadList(tx)[i], tx))}
            \cup SeqReads(mv, tx, i + 1)

RECURSIVE SeqFlush(_, _, _)
SeqFlush(mv, ks, ver) ==
    IF ks = {} THEN mv
    ELSE SeqFlush(mvWrite(mv, SetMin(ks), ver), ks \ {SetMin(ks)}, ver)

RECURSIVE SeqRun(_, _, _)
SeqRun(tx, mv, io) ==
    IF tx >= NumTasks THEN io
    ELSE LET rds == SeqReads(mv, tx, 1)
             wrs == TxnWrites(Version(tx, 0), rds)
         IN SeqRun(tx + 1, SeqFlush(mv, Paths(wrs), Version(tx, 0)),
                   [io EXCEPT !.inputs[tx] = rds, !.outputs[tx] = wrs,
                              !.allOutputs[tx] = wrs])

SequentialIO == SeqRun(0, MakeMVHashMap, MakeTxnInputOutput)

\* a read-set and a write-set without the incarnation numbers of their versions
ReadsOf(io, tx) == {[path |-> rd.path, kind |-> rd.kind, writer |-> rd.v.tx] : rd \in io.inputs[tx]}
WritesOf(io, tx) == Paths(io.outputs[tx])

SameUpToIncarnation(a, b) ==
    \A tx \in Tx : ReadsOf(a, tx) = ReadsOf(b, tx) /\ WritesOf(a, tx) = WritesOf(b, tx)

ReturnedOK == pc = "returned" /\ ret.err = "nil"
ReturnedFatal == pc = "returned" /\ ret.err = "fatal"

\* C1 (as stated): with no forced conflicts, the input/output sets returned
\* without error equal those of the sequential execution at incarnation 0,
\* versions included.
C1_EqualsSequential ==
    (ReturnedOK /\ forced = 0) => ret.result.TxIO = <<SequentialIO>>

\* C1 (amended): with no forced conflicts, the input/output sets returned
\* without error equal those of the sequential execution up to the incarnation
\* numbers: every transaction reads the same keys, each read resolved to the same
\* writer index or to base state, and writes the same keys.
C1_EquivalentToSequential ==
    (ReturnedOK /\ forced = 0) => SameUpToIncarnation(ret.result.TxIO[1], SequentialIO)

\* a run without forced conflicts returned after some transaction was re-executed
C1_Witness ==
    /\ ReturnedOK
    /\ forced = 0
    /\ \E tx \in Tx : pe.txIncarnations[tx] > 0
    /\ SameUpToIncarnation(ret.result.TxIO[1], SequentialIO)

----------------------------------------------------------------------------
(* Settlement *)

SettledInOrder == \A i \in 1 .. Len(settled) : settled[i].tx = i - 1

SettledFinalIncarnation ==
    \A i \in 1 .. Len(settled) : settled[i].inc = pe.txIncarnations[settled[i].tx]

\* C2 (as stated): in every run that has returned, Settle has been invoked exactly
\* once per transaction index, for its final incarnation, in ascending order.
C2_SettleOncePerIndexEveryRun ==
    pc = "returned" =>
        /\ Len(settled) = NumTasks
        /\ SettledInOrder
        /\ SettledFinalIncarnation

\* C2 (amended): in every run Settle is invoked at most once per transaction
\* index, for the final incarnation of the transaction, and Settle(i) only after
\* Settle(j) for every j < i; in every run that returns without error it has been
\* invoked exactly once for every index.
C2_SettleOnceInOrder ==
    /\ SettledInOrder
    /\ SettledFinalIncarnation
    /\ ReturnedOK => Len(settled) = NumTasks

\* every transaction settled, one of them after a re-execution
C2_Witness ==
    /\ ReturnedOK
    /\ Len(settled) = NumTasks
    /\ \E i \in 1 .. Len(settled) : settled[i].inc > 0

\* C3: a run that returns a fatal error has dispatched and made no Settle call
C3_NoSettleOnFatal ==
    ReturnedFatal => (settled = <<>> /\ pe.chSettle = <<>> /\ pe.lastSettled = -1)

\* C4: a non-nil error is returned with the zero ParallelExecutionResult
C4_NoPartialResult ==
    (pc = "returned" /\ ret.err # "nil") => ret.result = NilResult

\* a fatal error returned after results of other transactions were recorded
C4_Witness ==
    /\ ReturnedFatal
    /\ pe.execTasks.complete # {}
    /\ ret.result = NilResult

WorkersGone == live["go"] + live["spec"] = 0

\* C5: when a fatal error is returned intake is closed and every worker and the
\* settle goroutine have returned
C5_JoinedOnFatal ==
    ReturnedFatal => (pe.closedTasks /\ WorkersGone /\ ~settleLive)

Estimates(mv) == {<<k, t>> \in Keys \X Tx : mv[k][t].f = "est"}

\* C6: the store holds ESTIMATE markers only of transactions whose execution
\* after the failed validation has not yet been recorded, so on a successful
\* return it holds none
C6_NoDanglingEstimates ==
    /\ \A e \in Estimates(pe.mvh) : e[2] \notin pe.execTasks.complete
    /\ ReturnedOK => Estimates(pe.mvh) = {}

\* a successful return of a run in which a validation failed
C6_Witness ==
    /\ ReturnedOK
    /\ obs.failed # {}
    /\ Estimates(pe.mvh) = {}

\* C7: a transaction that completed execution before a lower transaction changed
\* its write set is not dispatched for settlement before it is validated again
C7_RevalidatedBeforeSettle ==
    \A j \in Tx : j <= pe.lastSettled => j \notin obs.stale

\* such a transaction, validated again and settled
C7_Witness ==
    \E j \in obs.wasStale : j <= pe.lastSettled /\ j \notin obs.stale

\* C8: a result with an input/output set is returned only when every transaction
\* is executed and validated, intake is closed, the workers have returned and
\* every Settle call has finished
C8_ReturnImpliesCompletion ==
    (pc = "returned" /\ ret.result.TxIO # <<>>) =>
        /\ pe.execTasks.complete = Tx
        /\ pe.validateTasks.complete = Tx
        /\ pe.closedTasks
        /\ WorkersGone
        /\ Len(settled) = NumTasks
        /\ settleWg = 0

\* a result returned with its input/output set after every Settle call
C8_Witness ==
    /\ pc = "returned"
    /\ ret.result.TxIO # <<>>
    /\ Len(settled) = NumTasks
    /\ WorkersGone

\* C9: without forced conflicts and fatal errors, under fair scheduling,
\* executeParallelWithCheck eventually returns
C9_Terminates == <>(pc = "returned")

\* a return of a run in which an execution aborted on an ESTIMATE entry
C9_Witness ==
    /\ ReturnedOK
    /\ forced = 0
    /\ \E tx \in Tx : obs.abortedInc[tx] >= 0

\* the executions of tx dispatched and not yet consumed
Dispatched(tx) ==
    {pe.chTasks[i] : i \in {j \in 1 .. Len(pe.chTasks) : pe.chTasks[j].tx = tx}}
      \cup {v \in pe.specTaskQueue : v.tx = tx}
      \cup (IF work[tx].st = "idle" THEN {}
            ELSE IF work[tx].st = "exec" THEN {work[tx].ver} ELSE {work[tx].res.ver})

\* C10: a transaction whose abort reported a dependency that had not completed
\* execution stays recorded as blocked on it and is not dispatched again until
\* the dependency completes execution; its next execution has a higher incarnation
C10_BlockedUntilComplete ==
    \A tx \in Tx :
        /\ obs.blockedOn[tx] # -1 =>
              /\ <<obs.blockedOn[tx], tx>> \in pe.execTasks.dependency
              /\ tx \notin pe.execTasks.pending
              /\ tx \notin pe.execTasks.inProgress
        /\ \A v \in Dispatched(tx) : v.inc > obs.abortedInc[tx]

----------------------------------------------------------------------------
(* Dropped keys *)

\* the keys for which the store has an entry attributed to tx
EntriesOf(mv, tx) == {k \in Keys : mv[k][tx].f # "none"}

\* C11: once the result of an execution of tx has been processed, the store
\* has entries attributed to tx only for the keys of the recorded all-write-set
\* (a key the previous incarnation wrote and this one does not is deleted);
\* so on a successful return no entry is left for a key the final incarnation
\* of a transaction does not write
C11_DroppedKeysRemoved ==
    /\ \A tx \in pe.execTasks.complete :
           EntriesOf(pe.mvh, tx) \subseteq Paths(pe.lastTxIO.allOutputs[tx])
    /\ ReturnedOK =>
           \A tx \in Tx : EntriesOf(pe.mvh, tx) = Paths(pe.lastTxIO.allOutputs[tx])

\* a successful return of a run in which a re-execution dropped a key that
\* the final incarnation does not write
C11_Witness ==
    /\ ReturnedOK
    /\ \E d \in obs.dropped :
          /\ d[1] \notin Paths(pe.lastTxIO.allOutputs[d[2]])
          /\ pe.mvh[d[1]][d[2]] = NoEntry

----------------------------------------------------------------------------
(* Synthesized estimates *)

\* C12: every estimate Step has appended to estimateDeps[tx] is strictly less
\* than tx
C12_EstimateBelowTx ==
    \A tx \in Tx : \A i \in 1 .. Len(pe.estimateDeps[tx]) : pe.estimateDeps[tx][i] < tx

\* a transaction with two synthesized estimates, the second one clamped to tx - 1
C12_Witness ==
    \E tx \in Tx :
        /\ Len(pe.estimateDeps[tx]) >= 2
        /\ Last(pe.estimateDeps[tx]) = tx - 1
        /\ pe.estimateDeps[tx][1] + GoDiv(pe.estimateDeps[tx][1] + tx, 2) >= tx

----------------------------------------------------------------------------
(* The execution tracker *)

\* the number of the sets pending, in-progress, complete that hold tx
SetsHolding(m, tx) ==
    (IF tx \in m.pending THEN 1 ELSE 0) + (IF tx \in m.inProgress THEN 1 ELSE 0)
        + (IF tx \in m.complete THEN 1 ELSE 0)

\* C13: between the steps of the control loop every index of the execution
\* tracker is in exactly one of pending, in-progress, complete, and every
\* blocked index is pending
C13_TrackerPartition ==
    \A tx \in Tx :
        /\ SetsHolding(pe.execTasks, tx) = 1
        /\ isBlocked(pe.execTasks, tx) => tx \in pe.execTasks.pending

----------------------------------------------------------------------------
(* Dependencies recorded by Prepare *)

\* the first execution of tx has been dispatched and its result not yet consumed
FirstExecutionDispatched(tx) == \E v \in Dispatched(tx) : v.inc = 0

\* an execution of tx has completed or aborted at some time
HasFinishedOnce(tx) == tx \in pe.execTasks.complete \/ pe.txIncarnations[tx] > 0

\* C14: without dependency hints, a task is not dispatched for its first
\* execution before the earlier tasks of the same sender have completed execution
C14_SameSenderOrdered ==
    ~pe.metadata =>
        \A i, j \in Tx :
            (i < j /\ Sender(i) = Sender(j) /\ FirstExecutionDispatched(j))
                => HasFinishedOnce(i)

\* an execution of tx has completed at some time: it is complete, or it was
\* and its validation failed
CompletedOnce(tx) == tx \in pe.execTasks.complete \/ tx \in obs.failed

\* C15: with dependency hints, a task is not dispatched for its first execution
\* until every index its Dependencies() lists has completed execution
C15_HintsRespected ==
    pe.metadata =>
        \A i \in Tx : \A d \in Dependencies(i) :
            FirstExecutionDispatched(i) => CompletedOnce(d)

----------------------------------------------------------------------------
\* no version of tx other than incarnation 0 is queued, executing or reported
OnlyFirstIncarnation(tx) == \A v \in Dispatched(tx) : v.inc = 0

\* C16: in a block whose tasks read and write pairwise disjoint keys and never
\* abort on their own, every task is executed exactly once at incarnation 0
\* (never re-dispatched once it has completed), no abort and no validation
\* failure occurs, and Settle is called in the order 0, 1, ..., N-1
C16_DisjointFastCase ==
    /\ \A tx \in Tx :
          /\ pe.txIncarnations[tx] = 0
          /\ OnlyFirstIncarnation(tx)
          /\ tx \in pe.execTasks.complete => Dispatched(tx) = {}
          /\ obs.abortedInc[tx] = -1
          /\ tx \notin obs.failed
    /\ ~obs.overlap
    /\ SettledInOrder
    /\ \A i \in 1 .. Len(settled) : settled[i].inc = 0
    /\ pc = "returned" =>
          /\ ReturnedOK
          /\ Len(settled) = NumTasks
          /\ pe.execTasks.complete = Tx

C16_Witness ==
    /\ pe.tasks = DisjointBlock
    /\ ReturnedOK
    /\ Len(settled) = NumTasks
    /\ \A tx \in Tx : pe.txIncarnations[tx] = 0 /\ pe.lastTxIO.allOutputs[tx] # {}
----------------------------------------------------------------------------
ResultsOf(tx) == {r \in pe.resultQueue : r.ver.tx = tx}

\* the queue stores its data by transaction index: a result is handed out as it
\* was pushed only if no second result of the same index is pushed before it is
\* popped
OneResultPerIndex ==
    \A tx \in Tx : ResultsOf(tx) # {} =>
        /\ Cardinality(ResultsOf(tx)) = 1
        /\ Dispatched(tx) = {}

\* one token on chResults (sent or about to be sent) for every queued result
TokenPerResult ==
    Cardinality(pe.resultQueue) = pe.chResults + owed["go"] + owed["spec"]

\* an iteration of the loop over chResults takes one token and removes from the
\* queue one result, of the lowest index in it
ConsumesLowest ==
    pe'.resultQueue # pe.resultQueue /\ pe'.resultQueue \subseteq pe.resultQueue =>
        /\ pe'.chResults = pe.chResults - 1
        /\ \E r \in pe.resultQueue :
              /\ pe'.resultQueue = pe.resultQueue \ {r}
              /\ \A u \in pe.resultQueue : r.ver.tx <= u.ver.tx

\* C17: each iteration of the control loop consumes, among the results in the
\* result queue, the one of the lowest transaction index, and every result a
\* worker pushed is consumed by exactly one iteration: results are neither
\* overwritten in the queue nor left in it by a run that returns without error
C17_OrderedConsumption ==
    /\ [](OneResultPerIndex /\ TokenPerResult)
    /\ [](ReturnedOK => pe.resultQueue = {} /\ pe.chResults = 0)
    /\ [][ConsumesLowest]_vars

\* a token is ready while the queue holds results of several indices
C17_Witness ==
    /\ pc = "loop"
    /\ pe.chResults > 0
    /\ \E r, u \in pe.resultQueue : r.ver.tx < u.ver.tx /\ u.ver.inc > 0
----------------------------------------------------------------------------
\* no worker and no settle goroutine has been started
NothingStarted ==
    /\ \A l \in Lanes : live[l] = 0
    /\ ~settleLive
    /\ settleWg = 0
    /\ \A tx \in Tx : work[tx].st = "idle"

\* C18: ExecuteParallel on an empty task list returns a nil error and empty,
\* non-null result structures (input/output set, stats, dependency map),
\* without starting any worker or settle goroutine
C18_EmptyBlockResult ==
    (pc = "returned" /\ len(pe.tasks) = 0) =>
        /\ ret.err = "nil"
        /\ NothingStarted
        /\ ret.result.TxIO # <<>>
        /\ ret.result.TxIO[1].inputs = <<>> /\ ret.result.TxIO[1].allOutputs = <<>>
        /\ ret.result.Stats # <<>>
        /\ ret.result.AllDeps # <<>>

\* what the code does hold to on an empty task list: nil error, an empty
\* input/output set, nothing started
EmptyBlockReturnsAtOnce ==
    (pc = "returned" /\ len(pe.tasks) = 0) =>
        /\ ret.err = "nil"
        /\ NothingStarted
        /\ ret.result.TxIO # <<>>
        /\ ret.result.TxIO[1].inputs = <<>> /\ ret.result.TxIO[1].allOutputs = <<>>
----------------------------------------------------------------------------
(* checkStateSyncOnRange (package eth).  A dispatcher goroutine starts one  *)
(* worker goroutine per page of state-sync events, at most                 *)
(* maxConcurrencyLimit at a time; a third goroutine waits for the wait     *)
(* group and closes done; the caller selects on errCh and done.            *)

NumEvents == 3
MaxTime == 2
maxConcurrencyLimit == 5

\* ids of the state-sync events Heimdall holds, and the page ids the
\* dispatcher may ask for: one page past the last event
EventIds == 0 .. (NumEvents - 1)
PageIds == 0 .. NumEvents

\* event times do not decrease with the id
EventTimes ==
    {t \in [EventIds -> 1 .. MaxTime] :
        \A a, b \in EventIds : a <= b => t[a] <= t[b]}

\* EventRecord.TxHash of the event with the given id
TxHash(id) == id

\* HeimdallClient.StateSyncEventsList(ctx, x): the events from id x on, at most
\* StateFetchLimit of them
RECURSIVE EventsFrom(_, _)
EventsFrom(x, n) ==
    IF n = 0 \/ x \notin EventIds THEN <<>>
    ELSE << x >> \o EventsFrom(x + 1, n - 1)

StateSyncEventsList(x) == EventsFrom(x, ss.limit)

\* rawdb.ReadBorTxLookupEntry(db, hash) == nil
LookupMissing(id) == TxHash(id) \notin ss.lookup

NoWorker == [st |-> "none", i |-> 0]

StateSyncCall(start, target, limit, time, lookup, bad) ==
    [start |-> start, target |-> target, limit |-> limit, time |-> time,
     lookup |-> lookup, bad |-> bad,
     missingStateSyncTxs |-> <<>>,
     ctxDone |-> FALSE,
     concurrencySem |-> 0,
     wg |-> 0,
     errCh |-> <<>>,
     done |-> FALSE,
     stateSyncId |-> start,
     dpc |-> "check",
     w |-> [x \in PageIds |-> NoWorker],
     mpc |-> "select",
     firstErr |-> <<>>,
     res |-> [missing |-> <<>>, err |-> "none"],
     failed |-> <<>>]

\* the dispatcher's select on ctx.Done() with a default
DispatchCheck ==
    /\ ss.mpc # "idle"
    /\ ss.dpc = "check"
    /\ ss' = [ss EXCEPT !.dpc = IF ss.ctxDone THEN "exit" ELSE "spawn"]
    /\ UNCHANGED besideStateSync

\* C36 mutant: the dispatcher starts a worker without a place in concurrencySem
DispatchSpawnNoSem ==
    /\ ss.mpc # "idle"
    /\ ss.dpc = "spawn"
    /\ ss.stateSyncId \in DOMAIN ss.w
    /\ ss' = [ss EXCEPT !.concurrencySem = @ + 1,
                        !.wg = @ + 1,
                        !.w[ss.stateSyncId] = [st |-> "fetch", i |-> 0],
                        !.stateSyncId = @ + ss.limit,
                        !.dpc = "check"]
    /\ UNCHANGED besideStateSync

\* concurrencySem <- struct{}{}; wg.Add(1); go func(x) {...}(stateSyncId);
\* stateSyncId += StateFetchLimit()
DispatchSpawn ==
    /\ ss.mpc # "idle"
    /\ ss.dpc = "spawn"
    /\ ss.concurrencySem < maxConcurrencyLimit
    /\ ss.stateSyncId \in DOMAIN ss.w
    /\ ss' = [ss EXCEPT !.concurrencySem = @ + 1,
                        !.wg = @ + 1,
                        !.w[ss.stateSyncId] = [st |-> "fetch", i |-> 0],
                        !.stateSyncId = @ + ss.limit,
                        !.dpc = "check"]
    /\ UNCHANGED besideStateSync

\* a worker's deferred calls follow its return: the semaphore, then wg.Done
WorkerReturns(x) == [st |-> "release", i |-> 0]

\* resp, err := StateSyncEventsList(ctx, x), and the error branch
WorkerFetch(x) ==
    /\ ss.mpc # "idle"
    /\ ss.w[x].st = "fetch"
    /\ IF x \in ss.bad
       THEN ss' = [ss EXCEPT !.errCh = IF @ = <<>> THEN << x >> ELSE @,
                             !.failed = IF ss.mpc = "returned" THEN @ ELSE Append(@, x),
                             !.ctxDone = TRUE,
                             !.w[x] = WorkerReturns(x)]
       ELSE ss' = [ss EXCEPT !.w[x] = IF StateSyncEventsList(x) = <<>>
                                      THEN WorkerReturns(x)
                                      ELSE [st |-> "scan", i |-> 1]]
    /\ UNCHANGED besideStateSync

\* one iteration of the loop over resp
WorkerScan(x) ==
    /\ ss.mpc # "idle"
    /\ ss.w[x].st = "scan"
    /\ LET resp == StateSyncEventsList(x)
           ev == resp[ss.w[x].i]
           next == IF ss.w[x].i = Len(resp) THEN WorkerReturns(x)
                   ELSE [st |-> "scan", i |-> ss.w[x].i + 1]
       IN IF ss.target < ss.time[ev]
          THEN ss' = [ss EXCEPT !.ctxDone = TRUE, !.w[x] = WorkerReturns(x)]
          ELSE ss' = [ss EXCEPT
                        !.missingStateSyncTxs =
                            IF LookupMissing(ev) THEN Append(@, TxHash(ev)) ELSE @,
                        !.w[x] = next]
    /\ UNCHANGED besideStateSync

\* defer func() { <-concurrencySem }()
WorkerRelease(x) ==
    /\ ss.mpc # "idle"
    /\ ss.w[x].st = "release"
    /\ ss' = [ss EXCEPT !.concurrencySem = @ - 1, !.w[x] = [st |-> "done", i |-> 0]]
    /\ UNCHANGED besideStateSync

\* defer wg.Done()
WorkerDone(x) ==
    /\ ss.mpc # "idle"
    /\ ss.w[x].st = "done"
    /\ ss' = [ss EXCEPT !.wg = @ - 1, !.w[x] = [st |-> "gone", i |-> 0]]
    /\ UNCHANGED besideStateSync

\* go func() { wg.Wait(); close(done) }(): Wait returns when it finds the
\* counter at zero
CloseDone ==
    /\ ss.mpc # "idle"
    /\ ~ss.done
    /\ ss.wg = 0
    /\ ss' = [ss EXCEPT !.done = TRUE]
    /\ UNCHANGED besideStateSync

\* case firstErr := <-errCh
SelectErr ==
    /\ ss.mpc = "select"
    /\ ss.errCh # <<>>
    /\ ss' = [ss EXCEPT !.mpc = "gotErr", !.firstErr = ss.errCh, !.errCh = <<>>]
    /\ UNCHANGED besideStateSync

\* <-done; return nil, firstErr (and the deferred cancel)
ReturnErr ==
    /\ ss.mpc = "gotErr"
    /\ ss.done
    /\ ss' = [ss EXCEPT !.mpc = "returned",
                        !.res = [missing |-> <<>>, err |-> ss.firstErr],
                        !.ctxDone = TRUE]
    /\ UNCHANGED besideStateSync

\* case <-done: return missingStateSyncTxs, nil (and the deferred cancel)
ReturnMissing ==
    /\ ss.mpc = "select"
    /\ ss.done
    /\ ss' = [ss EXCEPT !.mpc = "returned",
                        !.res = [missing |-> << ss.missingStateSyncTxs >>, err |-> <<>>],
                        !.ctxDone = TRUE]
    /\ UNCHANGED besideStateSync

NextStateSync ==
    \/ DispatchCheck
    \/ DispatchSpawn
    \/ \E x \in DOMAIN ss.w : WorkerFetch(x)
    \/ \E x \in DOMAIN ss.w : WorkerScan(x)
    \/ \E x \in DOMAIN ss.w : WorkerRelease(x)
    \/ \E x \in DOMAIN ss.w : WorkerDone(x)
    \/ CloseDone
    \/ SelectErr
    \/ ReturnErr
    \/ ReturnMissing

StateSyncCalls ==
    {StateSyncCall(start, MaxTime - 1, limit, time, lookup, bad) :
        start \in 0 .. 1, limit \in 1 .. 2, time \in EventTimes,
        lookup \in {{}, {TxHash(1)}}, bad \in {{}, {1}, {2}}}

InitStateSync ==
    /\ InitExecutor({NewParallelExecutor(EmptyTasks, FALSE)})
    /\ ss \in StateSyncCalls
    /\ qm = NotCreated
    /\ hws = NotConnected
    /\ dg = NotBuilt
    /\ fb = NotSearching

SpecStateSync == InitStateSync /\ [][NextStateSync]_vars

\* calls in which the dispatcher asks for more pages than concurrencySem has
\* places: the page of the last event and NumPages empty pages past it
NumPages == 6

ManyPagesCalls ==
    {[c EXCEPT !.w = [x \in 0 .. NumEvents + NumPages - 1 |-> NoWorker]] :
        c \in {StateSyncCall(NumEvents - 1, MaxTime - 1, 1, [e \in EventIds |-> 1],
                             {}, bad) : bad \in {{}, {NumEvents - 1}}}}

InitManyPages ==
    /\ InitExecutor({NewParallelExecutor(EmptyTasks, FALSE)})
    /\ ss \in ManyPagesCalls
    /\ qm = NotCreated
    /\ hws = NotConnected
    /\ dg = NotBuilt
    /\ fb = NotSearching

SpecManyPages == InitManyPages /\ [][NextStateSync]_vars

Range(q) == {q[j] : j \in 1 .. Len(q)}

\* the events the check is about: id >= startStateSyncId, time <= target
InRange == {e \in EventIds : e >= ss.start /\ ss.time[e] <= ss.target}

ExpectedMissing == {TxHash(e) : e \in {d \in InRange : LookupMissing(d)}}

\* C19: checkStateSyncOnRange returns, with a nil error, exactly the TxHash
\* values of the events with id >= startStateSyncId and time <= the target
\* time that have no lookup entry; when a page fetch has failed it returns
\* nil and the first error
C19_ExactMissingSet ==
    ss.mpc = "returned" =>
        /\ ss.res.err = <<>> =>
              /\ ss.res.missing # <<>>
              /\ Range(ss.res.missing[1]) = ExpectedMissing
        /\ ss.failed # <<>> =>
              /\ ss.res.missing = <<>>
              /\ ss.res.err = << ss.failed[1] >>

\* what every return does guarantee: a nil error comes with hashes of events in
\* range that have no lookup entry, each at most once; an error comes with nil
\* and is the first fetch error
StateSyncNoFalseReport ==
    ss.mpc = "returned" =>
        IF ss.res.err = <<>>
        THEN /\ ss.res.missing # <<>>
             /\ Range(ss.res.missing[1]) \subseteq ExpectedMissing
             /\ Cardinality(Range(ss.res.missing[1])) = Len(ss.res.missing[1])
        ELSE /\ ss.res.missing = <<>>
             /\ ss.res.err = << ss.failed[1] >>

\* the StateSyncEventsList calls in flight: the workers started that have not
\* got their page yet
InFlightFetches == {x \in DOMAIN ss.w : ss.w[x].st = "fetch"}

\* the workers that hold a place in concurrencySem
HoldingSem == {x \in DOMAIN ss.w : ss.w[x].st \in {"fetch", "scan", "release"}}

\* C36: at most maxConcurrencyLimit StateSyncEventsList calls are in flight at
\* any time: every worker running holds a place of its own in concurrencySem
C36_BoundedFetchConcurrency ==
    /\ Cardinality(InFlightFetches) <= maxConcurrencyLimit
    /\ Cardinality(HoldingSem) = ss.concurrencySem
    /\ ss.concurrencySem <= maxConcurrencyLimit

\* maxConcurrencyLimit fetches are in flight and the dispatcher, with one more
\* page to ask for, waits for a place
C36_Witness ==
    /\ Cardinality(InFlightFetches) = maxConcurrencyLimit
    /\ ss.dpc = "spawn"
    /\ ss.stateSyncId \in DOMAIN ss.w

Running == {x \in DOMAIN ss.w : ss.w[x].st \notin {"none", "gone"}}

\* C37: when checkStateSyncOnRange has returned no page worker is running, and
\* from then on none is started and nothing is appended to the list of missing
\* hashes
C37_NoWorkAfterReturn ==
    /\ [](ss.mpc = "returned" => Running = {})
    /\ [][ss.mpc = "returned" =>
            /\ ss'.w = ss.w
            /\ ss'.missingStateSyncTxs = ss.missingStateSyncTxs]_vars
----------------------------------------------------------------------------
(* findBoundaryStateSync (package eth): the binary search for the first     *)
(* state-sync event of a block, one Heimdall fetch per iteration.           *)

NumIds == 5
MaxEventTime == 3

\* the ids the search may fetch, and event times that do not decrease with them
SearchIds == 0 .. (NumIds - 1)
SearchTimes ==
    {t \in [SearchIds -> 1 .. MaxEventTime] :
        \A a, b \in SearchIds : a <= b => t[a] <= t[b]}

\* time.Time.Compare
Compare(t, u) == IF t < u THEN -1 ELSE IF t > u THEN 1 ELSE 0

\* C38 mutant: an event later than the target is left out of the range with
\* the one before it
NextRangeBelowMid(lo, hi, mid, direction) ==
    CASE direction = -1 -> [lo |-> lo, hi |-> mid - 1]
      [] direction = 1 -> [lo |-> mid + 1, hi |-> hi]

\* the range the loop goes on with, for the directions that do not return
NextRange(lo, hi, mid, direction) ==
    CASE direction = -1 -> [lo |-> lo, hi |-> mid]
      [] direction = 1 -> [lo |-> mid + 1, hi |-> hi]

\* a call findBoundaryStateSync(lo, hi, target) against events with the given
\* times, the fetch of the ids in bad failing; fetched lists the ids asked for
BoundaryCall(lo, hi, target, time, bad) ==
    [bpc |-> "loop", lo |-> lo, hi |-> hi, lo0 |-> lo, hi0 |-> hi,
     target |-> target, time |-> time, bad |-> bad,
     fetched |-> <<>>, res |-> [id |-> 0, err |-> "none"]]

BoundaryCalls ==
    {BoundaryCall(lo, hi, target, time, bad) :
        lo \in 0 .. NumIds, hi \in 0 .. NumIds, target \in 0 .. MaxEventTime + 1,
        time \in SearchTimes, bad \in {{}} \cup {{i} : i \in SearchIds}}

\* one iteration of the loop: the fetch of mid and the switch on the direction
BoundaryFetch ==
    /\ fb.bpc = "loop"
    /\ fb.lo < fb.hi
    /\ LET mid == fb.lo + (fb.hi - fb.lo) \div 2
           direction == Compare(fb.target, fb.time[mid])
           f == [fb EXCEPT !.fetched = Append(@, mid)]
       IN fb' = IF mid \in fb.bad
                THEN [f EXCEPT !.bpc = "returned", !.res = [id |-> 0, err |-> <<mid>>]]
                ELSE IF direction = 0
                THEN [f EXCEPT !.bpc = "returned", !.res = [id |-> mid, err |-> <<>>]]
                ELSE [f EXCEPT !.lo = NextRange(fb.lo, fb.hi, mid, direction).lo,
                               !.hi = NextRange(fb.lo, fb.hi, mid, direction).hi]
    /\ UNCHANGED besideBoundary

\* return lo, nil when the range is empty
BoundaryReturn ==
    /\ fb.bpc = "loop"
    /\ ~(fb.lo < fb.hi)
    /\ fb' = [fb EXCEPT !.bpc = "returned", !.res = [id |-> fb.lo, err |-> <<>>]]
    /\ UNCHANGED besideBoundary

findBoundaryStateSync ==
    \/ BoundaryFetch
    \/ BoundaryReturn

InitBoundary ==
    /\ InitExecutor({NewParallelExecutor(EmptyTasks, FALSE)})
    /\ ss = NotCalled
    /\ qm = NotCreated
    /\ hws = NotConnected
    /\ dg = NotBuilt
    /\ fb \in {c \in BoundaryCalls : c.lo <= c.hi}

SpecBoundary == InitBoundary /\ [][findBoundaryStateSync]_vars

\* the least k with 2^k >= n, for n >= 1
RECURSIVE CeilLog2(_)
CeilLog2(n) == IF n <= 1 THEN 0 ELSE 1 + CeilLog2((n + 1) \div 2)

\* at most ceil(log2(hi - lo)) + 1 fetches, none for an empty range, none of an
\* id twice, and none after the return
BoundedFetches ==
    /\ Len(fb.fetched) <= (IF fb.hi0 > fb.lo0 THEN CeilLog2(fb.hi0 - fb.lo0) + 1 ELSE 0)
    /\ Cardinality(Range(fb.fetched)) = Len(fb.fetched)

\* a fetch error is returned with result 0 and ends the search
ErrorEndsSearch ==
    \A x \in 1 .. Len(fb.fetched) :
        fb.fetched[x] \in fb.bad =>
            /\ x = Len(fb.fetched)
            /\ fb.bpc = "returned"
            /\ fb.res = [id |-> 0, err |-> <<fb.fetched[x]>>]

FoundEqual ==
    /\ fb.res.id \in fb.lo0 .. (fb.hi0 - 1)
    /\ fb.time[fb.res.id] = fb.target

AllEarlier(r) == \A i \in fb.lo0 .. (r - 1) : fb.time[i] < fb.target

C38_WitnessError ==
    /\ fb.bpc = "returned" /\ fb.res.err # <<>>
    /\ Len(fb.fetched) = 2 /\ fb.res.id = 0

----------------------------------------------------------------------------
(* The QMDB key-value database (package qmdb): Database and Batch over the  *)
(* QMDB handle.  The handle is the library's: it is modelled by what the   *)
(* database asks of it, a store of entries that StartBlock changes by the  *)
(* operations of a change set and that ReadEntry reads.                    *)

NumDbKeys == 2
NumValues == 2
MaxBatch == 2
MaxHeight == 3

DbKeys == 1 .. NumDbKeys
Values == 1 .. NumValues

\* a value that is nil, and the entry of a key the store does not hold
NilValue == <<>>
NoDbEntry == [found |-> FALSE, value |-> NilValue]

\* qmdb.Hash(key): keys in the order of their hashes are not in their own order
Hash(key) == NumDbKeys - key

\* qmdb.NewChangeSet(), and NewBatch; calls records the Put and Delete calls
\* the change set was built by
NewBatch == [changeset |-> <<>>, size |-> 0, closed |-> FALSE, calls |-> <<>>]

\* New: an open database at block height 0 over an empty store; batch is the
\* Batch the caller holds; expect, broken, everPut and written record the calls
\* made so far for the properties
NewDatabase ==
    [st |-> "open",
     blockHeight |-> 0,
     entries |-> [k \in DbKeys |-> NoDbEntry],
     top |-> 0,
     batch |-> NewBatch,
     lastErr |-> "none",
     expect |-> [k \in DbKeys |-> NoDbEntry],
     broken |-> FALSE,
     everPut |-> {},
     written |-> 0]

\* shared.ReadEntry(blockHeight, keyHash, key): the entry as of the last block
\* started; the database never reads below it (ReadsLatestBlock)
ReadEntry(q, height, key) == q.entries[key]

\* Database.Get: value and error
Get(q, key) ==
    IF q.st = "closed" THEN [value |-> NilValue, err |-> "errDBClosed"]
    ELSE IF ~ReadEntry(q, q.blockHeight, key).found
         THEN [value |-> NilValue, err |-> "errQmdbNotFound"]
         ELSE [value |-> ReadEntry(q, q.blockHeight, key).value, err |-> "nil"]

\* Database.Has: presence and error
Has(q, key) ==
    IF Get(q, key).err = "errQmdbNotFound" THEN [has |-> FALSE, err |-> "nil"]
    ELSE [has |-> Get(q, key).err = "nil", err |-> Get(q, key).err]

\* Batch.Put on an open batch: changeset.AddOp(OpWrite, ...)
AddPut(b, key, value) ==
    [b EXCEPT !.changeset = Append(@, [op |-> "OpWrite", key |-> key, value |-> << value >>]),
              !.size = @ + 2,
              !.calls = Append(@, [call |-> "Put", key |-> key, value |-> << value >>])]

\* C20 mutant: a removal queued as the write of a nil value
AddDeleteAsWrite(b, key) ==
    [b EXCEPT !.changeset = Append(@, [op |-> "OpWrite", key |-> key, value |-> NilValue]),
              !.size = @ + 1,
              !.calls = Append(@, [call |-> "Delete", key |-> key, value |-> NilValue])]

\* Batch.Delete on an open batch: changeset.AddOp(OpDelete, ...)
AddDelete(b, key) ==
    [b EXCEPT !.changeset = Append(@, [op |-> "OpDelete", key |-> key, value |-> NilValue]),
              !.size = @ + 1,
              !.calls = Append(@, [call |-> "Delete", key |-> key, value |-> NilValue])]

\* changeset.Sort(): the operations in the order of their key hashes; the order
\* it leaves between operations on one key is the library's
SortedOrders(cs) ==
    {p \in [1 .. Len(cs) -> 1 .. Len(cs)] :
        /\ \A a, b \in 1 .. Len(cs) : a # b => p[a] # p[b]
        /\ \A a, b \in 1 .. Len(cs) : a < b => Hash(cs[p[a]].key) <= Hash(cs[p[b]].key)}

Sorted(cs, p) == [j \in 1 .. Len(cs) |-> cs[p[j]]]

RECURSIVE ApplyOps(_, _, _)
ApplyOps(entries, cs, j) ==
    IF j > Len(cs) THEN entries
    ELSE ApplyOps([entries EXCEPT ![cs[j].key] =
                      IF cs[j].op = "OpDelete" THEN NoDbEntry
                      ELSE [found |-> TRUE, value |-> cs[j].value]],
                  cs, j + 1)

\* handle.StartBlock(height, taskManager): the change set becomes block height
StartBlock(q, height, cs) ==
    [q EXCEPT !.entries = ApplyOps(@, cs, 1), !.top = height]

Faults == {"none", "tasks", "start", "flush"}

\* C39 mutant: Batch.Write does not look at the closed flag of the batch
WriteClosedBatch(q, b, fault, p) ==
    IF q.st = "closed" THEN [q |-> q, b |-> b, err |-> "errDBClosed"]
    ELSE LET bs == [b EXCEPT !.changeset = Sorted(@, p)]
             q1 == [q EXCEPT !.blockHeight = @ + 1]
             q2 == StartBlock(q1, q1.blockHeight, bs.changeset)
         IN IF fault = "tasks" THEN [q |-> q, b |-> bs, err |-> "tasks"]
            ELSE IF fault = "start"
                 THEN [q |-> [q1 EXCEPT !.broken = TRUE], b |-> bs, err |-> "start"]
            ELSE IF fault = "flush"
                 THEN [q |-> [q2 EXCEPT !.broken = TRUE], b |-> bs, err |-> "flush"]
            ELSE [q |-> q2, b |-> [bs EXCEPT !.closed = TRUE], err |-> "nil"]

\* Batch.Write of batch b on database q: the database, the batch and the error
\* it leaves.  fault names the library call that fails, if any; p is the order
\* Sort gives
Write(q, b, fault, p) ==
    IF b.closed THEN [q |-> q, b |-> b, err |-> "errBatchClosed"]
    ELSE IF q.st = "closed" THEN [q |-> q, b |-> b, err |-> "errDBClosed"]
    ELSE LET bs == [b EXCEPT !.changeset = Sorted(@, p)]
             q1 == [q EXCEPT !.blockHeight = @ + 1]
             q2 == StartBlock(q1, q1.blockHeight, bs.changeset)
         IN IF fault = "tasks" THEN [q |-> q, b |-> bs, err |-> "tasks"]
            ELSE IF fault = "start"
                 THEN [q |-> [q1 EXCEPT !.broken = TRUE], b |-> bs, err |-> "start"]
            ELSE IF fault = "flush"
                 THEN [q |-> [q2 EXCEPT !.broken = TRUE], b |-> bs, err |-> "flush"]
            ELSE [q |-> q2, b |-> [bs EXCEPT !.closed = TRUE], err |-> "nil"]

\* what the calls that returned nil have asked for: a key gets the entry of the
\* call made on it; a key with several calls in one batch gets whatever the
\* written block holds for it
CallsOn(calls, key) == {j \in 1 .. Len(calls) : calls[j].key = key}

Asked(q, r, calls) ==
    IF r.err # "nil" THEN q.expect
    ELSE [k \in DbKeys |->
            IF CallsOn(calls, k) = {} THEN q.expect[k]
            ELSE IF Cardinality(CallsOn(calls, k)) > 1 THEN r.q.entries[k]
            ELSE LET c == calls[CHOOSE j \in CallsOn(calls, k) : TRUE]
                 IN IF c.call = "Delete" THEN NoDbEntry
                    ELSE [found |-> TRUE, value |-> c.value]]

Puts(calls) == {calls[j].key : j \in {a \in 1 .. Len(calls) : calls[a].call = "Put"}}

\* the database after a Write r of a batch built by calls, with the calls recorded
Recorded(q, r, calls) ==
    [r.q EXCEPT !.lastErr = r.err,
                !.expect = Asked(q, r, calls),
                !.everPut = IF r.err = "nil" THEN @ \cup Puts(calls) ELSE @]

CanWrite(q) == q.blockHeight < MaxHeight

\* Database.Put: NewBatch, Batch.Put, Batch.Write
DbPut(key, value) ==
    /\ qm.st # "none"
    /\ CanWrite(qm)
    /\ \E fault \in Faults :
          LET b == AddPut(NewBatch, key, value)
          IN \E p \in SortedOrders(b.changeset) :
                qm' = Recorded(qm, Write(qm, b, fault, p), b.calls)
    /\ UNCHANGED besideQMDB

\* Database.Delete: NewBatch, Batch.Delete, Batch.Write
DbDelete(key) ==
    /\ qm.st # "none"
    /\ CanWrite(qm)
    /\ \E fault \in Faults :
          LET b == AddDelete(NewBatch, key)
          IN \E p \in SortedOrders(b.changeset) :
                qm' = Recorded(qm, Write(qm, b, fault, p), b.calls)
    /\ UNCHANGED besideQMDB

\* Batch.Put on the caller's batch
BatchPut(key, value) ==
    /\ qm.st # "none"
    /\ Len(qm.batch.changeset) < MaxBatch
    /\ IF qm.batch.closed
       THEN qm' = [qm EXCEPT !.lastErr = "errBatchClosed"]
       ELSE qm' = [qm EXCEPT !.batch = AddPut(@, key, value), !.lastErr = "nil"]
    /\ UNCHANGED besideQMDB

\* Batch.Delete on the caller's batch
BatchDelete(key) ==
    /\ qm.st # "none"
    /\ Len(qm.batch.changeset) < MaxBatch
    /\ IF qm.batch.closed
       THEN qm' = [qm EXCEPT !.lastErr = "errBatchClosed"]
       ELSE qm' = [qm EXCEPT !.batch = AddDelete(@, key), !.lastErr = "nil"]
    /\ UNCHANGED besideQMDB

\* Batch.Write on the caller's batch
BatchWrite ==
    /\ qm.st # "none"
    /\ CanWrite(qm)
    /\ \E fault \in Faults : \E p \in SortedOrders(qm.batch.changeset) :
          LET r == Write(qm, qm.batch, fault, p)
          IN qm' = [Recorded(qm, r, qm.batch.calls) EXCEPT
                      !.batch = r.b,
                      !.written = IF r.err = "nil"
                                  THEN Cardinality(Puts(qm.batch.calls))
                                  ELSE @]
    /\ UNCHANGED besideQMDB

\* Batch.Reset on the caller's batch
BatchReset ==
    /\ qm.st # "none"
    /\ qm.batch # NewBatch
    /\ qm' = [qm EXCEPT !.batch = NewBatch]
    /\ UNCHANGED besideQMDB

\* Database.Close
DbClose ==
    /\ qm.st = "open"
    /\ qm' = [qm EXCEPT !.st = "closed", !.lastErr = "nil"]
    /\ UNCHANGED besideQMDB

NextQMDB ==
    \/ \E key \in DbKeys, value \in Values : DbPut(key, value)
    \/ \E key \in DbKeys : DbDelete(key)
    \/ \E key \in DbKeys, value \in Values : BatchPut(key, value)
    \/ \E key \in DbKeys : BatchDelete(key)
    \/ BatchWrite
    \/ BatchReset
    \/ DbClose

InitQMDB ==
    /\ InitExecutor({NewParallelExecutor(EmptyTasks, FALSE)})
    /\ ss = NotCalled
    /\ qm = NewDatabase
    /\ hws = NotConnected
    /\ dg = NotBuilt
    /\ fb = NotSearching

SpecQMDB == InitQMDB /\ [][NextQMDB]_vars

\* the Puts queued in the caller's batch and not written
Pending ==
    IF qm.batch.closed THEN {}
    ELSE {qm.batch.calls[j] : j \in {a \in 1 .. Len(qm.batch.calls) :
                                        qm.batch.calls[a].call = "Put"}}

\* Get reads at a block height that is not below the last block started
ReadsLatestBlock == qm.blockHeight >= qm.top

----------------------------------------------------------------------------
(* One iteration of the control loop, seen as a step from pe to pe' *)

\* the step is an iteration of the loop over chResults
StepTaken == pc = "loop" /\ pe'.chResults = pe.chResults - 1

\* the result the iteration took from the queue
Consumed == CHOOSE r \in pe.resultQueue : r \notin pe'.resultQueue

\* the iteration ran Step past the test for a fatal error
StepRan == StepTaken /\ ~IsFatal(Consumed)

\* the executor when Step has handled the result and is about to validate
Handled ==
    LET p0 == [pe EXCEPT !.chResults = @ - 1, !.resultQueue = @ \ {Consumed}]
    IN IF IsAbort(Consumed) THEN StepAbort(p0, Consumed) ELSE StepSuccess(p0, Consumed)

\* the transactions Step's validation has touched: taken from pending
\* validation, marked validation-complete, or given a new incarnation
TouchedByValidation(p1) ==
    {tx \in Tx : \/ tx \in p1.validateTasks.pending \ pe'.validateTasks.pending
                 \/ tx \in pe'.validateTasks.complete \ p1.validateTasks.complete
                 \/ pe'.txIncarnations[tx] > p1.txIncarnations[tx]}

SkipCheckedRunsAfterValidated ==
    \A tx \in Tx :
        (pe.skipCheck[tx] /\ (Dispatched(tx) # {} \/ ResultsOf(tx) # {})) =>
            \A j \in 0 .. (tx - 1) : j \in pe.validateTasks.complete

\* the transactions Step has marked validation-complete on skipCheck alone
AcceptedUnchecked ==
    {tx \in TouchedByValidation(Handled) :
        tx \in pe'.validateTasks.complete /\ Handled.skipCheck[tx]}

\* C23: when Step marks tx validation-complete because skipCheck[tx] is set,
\* the execution it accepts was dispatched, and ran, with every lower index
\* validation-complete, and the recorded read-set of tx passes ValidateVersion
\* against the store
C23_SkipCheckSound ==
    /\ []SkipCheckedRunsAfterValidated
    /\ [][StepRan =>
             \A tx \in AcceptedUnchecked :
                 /\ ValidateVersion(tx, pe'.lastTxIO, pe'.mvh)
                 /\ \A j \in 0 .. (tx - 1) : j \in pe'.validateTasks.complete]_vars

\* a transaction above 0 that was executed again after skipCheck was set and
\* whose later incarnation has been accepted
C23_Witness ==
    \E tx \in Tx :
        /\ tx > 0
        /\ pe.skipCheck[tx]
        /\ work[tx].st = "idle" /\ work[tx].inc > 0
        /\ obs.abortedInc[tx] >= 0
        /\ tx \in pe.validateTasks.complete

\* the executor when the validation loop that starts from h reaches tx
BeforeValidating(h, tx) ==
    ValidateLoop(TakeToValidate(h), {v \in ToValidate(h) : v < tx})

ExecutionState(p, j) ==
    <<j \in p.execTasks.pending, j \in p.execTasks.inProgress,
      j \in p.execTasks.complete, blockers(p.execTasks, j)>>

\* what the failure of the validation of tx does, from b to a
FailureHandled(b, a, tx) ==
    /\ \A k \in Paths(b.lastTxIO.allOutputs[tx]) : a.mvh[k][tx] = Estimate
    /\ \A j \in Tx : (j > tx /\ j \in b.execTasks.complete) =>
            j \in a.validateTasks.pending /\ j \notin a.validateTasks.complete
    /\ tx \in b.validateTasks.inProgress
    /\ tx \notin a.validateTasks.inProgress
    /\ tx \notin a.validateTasks.complete
    /\ tx \in b.execTasks.complete
    /\ tx \notin a.execTasks.complete
    /\ tx \in a.execTasks.pending
    /\ tx \notin a.execTasks.inProgress
    /\ a.txIncarnations[tx] = b.txIncarnations[tx] + 1
    /\ \A j \in Tx \ {tx} :
          /\ ExecutionState(a, j) = ExecutionState(b, j)
          /\ a.txIncarnations[j] = b.txIncarnations[j]

\* C24: when the validation of tx fails, the same Step marks every key of the
\* recorded all-write-set of tx ESTIMATE, puts every execution-complete index
\* above tx back to pending validation, takes tx out of validation in-progress
\* without marking it validation-complete, moves tx from execution-complete to
\* execution-pending and adds one to txIncarnations[tx], and leaves the execution
\* state of every other transaction as it was; when the Step ends the marks are
\* in the store, tx is not execution-complete and its incarnation is one higher
C24_ValidationFailureHandled ==
    [][StepRan =>
          \A h \in {Handled} : \A tx \in ToValidate(h) :
              \A b \in {BeforeValidating(h, tx)} :
                  ~ValidationPasses(b, tx) =>
                      /\ \A a \in {ValidateOne(b, tx)} : FailureHandled(b, a, tx)
                      /\ \A k \in Paths(h.lastTxIO.allOutputs[tx]) :
                             pe'.mvh[k][tx] = Estimate
                      /\ tx \notin pe'.execTasks.complete
                      /\ tx \in pe'.execTasks.pending \cup pe'.execTasks.inProgress
                      /\ pe'.txIncarnations[tx] = h.txIncarnations[tx] + 1]_vars

\* a validation has failed for a transaction with a recorded write, below a
\* transaction that had completed execution: the write is marked ESTIMATE and
\* the higher transaction is pending validation
C24_Witness ==
    \E tx \in obs.failed :
        /\ pe.txIncarnations[tx] > 0
        /\ tx \notin pe.execTasks.complete
        /\ \E k \in Keys : pe.mvh[k][tx] = Estimate
        /\ \E j \in pe.validateTasks.pending : j > tx /\ j \in pe.execTasks.complete

\* the Step handles an abort that names the index it conflicted with
AbortWithDependency == StepRan /\ IsAbort(Consumed) /\ Consumed.dep >= 0

IsPrefix(a, b) == Len(a) <= Len(b) /\ \A i \in 1 .. Len(a) : a[i] = b[i]

\* C25: when an abort of tx names an index D >= 0, after the Step the estimates
\* left in estimateDeps[tx] are those recorded before that are <= D; if D was
\* not execution-complete tx is recorded as blocked on D and is neither pending
\* nor in progress, otherwise tx is re-queued as pending with no dependency on D;
\* in both cases tx has left in-progress and txIncarnations[tx] is one higher
C25_AbortWithDependency ==
    [][AbortWithDependency =>
          \A h \in {Handled} :
              LET tx == Consumed.ver.tx
                  D == Consumed.dep
              IN /\ \A i \in 1 .. Len(pe'.estimateDeps[tx]) :
                        pe'.estimateDeps[tx][i] <= D
                 /\ IsPrefix(pe'.estimateDeps[tx], pe.estimateDeps[tx])
                 /\ \A i \in 1 .. Len(pe.estimateDeps[tx]) :
                        pe.estimateDeps[tx][i] <= D => i <= Len(pe'.estimateDeps[tx])
                 /\ tx \in pe.execTasks.inProgress
                 /\ tx \notin h.execTasks.inProgress
                 /\ pe'.txIncarnations[tx] = pe.txIncarnations[tx] + 1
                 /\ IF D \in pe.execTasks.complete
                    THEN /\ tx \in h.execTasks.pending
                         /\ <<D, tx>> \notin pe'.execTasks.dependency
                         /\ tx \in pe'.execTasks.pending \cup pe'.execTasks.inProgress
                    ELSE /\ tx \notin h.execTasks.pending
                         /\ <<D, tx>> \in pe'.execTasks.dependency
                         /\ tx \notin pe'.execTasks.pending \cup pe'.execTasks.inProgress]_vars

\* a transaction that aborted naming an index that had not completed
\* execution, now blocked on that index and not pending
C25_Witness ==
    \E tx \in Tx :
        /\ obs.abortedInc[tx] >= 0
        /\ obs.blockedOn[tx] >= 0
        /\ <<obs.blockedOn[tx], tx>> \in pe.execTasks.dependency
        /\ tx \notin pe.execTasks.pending \cup pe.execTasks.inProgress
        /\ pe.txIncarnations[tx] = obs.abortedInc[tx] + 1

\* the Step handles an abort that names no index
AbortWithoutDependency == StepRan /\ IsAbort(Consumed) /\ Consumed.dep < 0

\* the last estimate recorded for tx before the Step, 0 if there is none
LastEstimate(tx) ==
    IF Len(pe.estimateDeps[tx]) > 0 THEN Last(pe.estimateDeps[tx]) ELSE 0

Min(a, b) == IF a <= b THEN a ELSE b

\* the estimate the Step has appended for tx is the one the claim describes
SynthesizedEstimate(tx) ==
    /\ Len(pe'.estimateDeps[tx]) = Len(pe.estimateDeps[tx]) + 1
    /\ IsPrefix(pe.estimateDeps[tx], pe'.estimateDeps[tx])
    /\ Last(pe'.estimateDeps[tx]) =
          Min(LastEstimate(tx) + GoDiv(LastEstimate(tx) + tx, 2), tx - 1)

\* after the Step tx is blocked on e and on nothing else, unless e had
\* completed execution, and then tx is blocked on nothing
DependentOn(tx, e) ==
    blockers(pe'.execTasks, tx) = IF e \in pe.execTasks.complete THEN {} ELSE {e}

\* C26: when an abort of tx names no index, Step appends to estimateDeps[tx]
\* the estimate min(estimate + (estimate + tx)/2, tx - 1), computed from the
\* last recorded estimate (0 if none), and makes tx dependent on the estimate
\* it has just appended
C26_AbortWithoutDependency ==
    [][AbortWithoutDependency =>
          /\ SynthesizedEstimate(Consumed.ver.tx)
          /\ DependentOn(Consumed.ver.tx, Last(pe'.estimateDeps[Consumed.ver.tx]))]_vars

\* what Step does: the estimate is synthesized as described, and tx is made
\* dependent on the estimate recorded before, not on the one just appended
DependsOnLastEstimate ==
    [][AbortWithoutDependency =>
          /\ SynthesizedEstimate(Consumed.ver.tx)
          /\ DependentOn(Consumed.ver.tx, LastEstimate(Consumed.ver.tx))]_vars

\* the executions queued for the workers
Queued(p) ==
    {p.chTasks[i] : i \in 1 .. Len(p.chTasks)} \cup p.specTaskQueue

\* the executions the step has dispatched
NewlyDispatched == Queued(pe') \ Queued(pe)

\* the highest incarnation of tx dispatched so far, -1 if there is none
LastIncarnation(tx) ==
    SetMax((IF work[tx].st = "idle" THEN {work[tx].inc} ELSE {})
             \cup {v.inc : v \in Dispatched(tx)}
             \cup {r.ver.inc : r \in ResultsOf(tx)}
             \cup {-1})

\* the aborts and the validation failures of tx the step has processed
ProcessedAborts(tx) ==
    IF StepRan /\ IsAbort(Consumed) /\ Consumed.ver.tx = tx THEN 1 ELSE 0
ProcessedFailures(tx) ==
    IF StepRan /\ \E h \in {Handled} :
                     /\ tx \in ToValidate(h)
                     /\ ~ValidationPasses(BeforeValidating(h, tx), tx)
    THEN 1 ELSE 0

\* C27: txIncarnations[tx] starts at 0 and goes up by one with every abort and
\* every validation failure of tx that Step processes, and with nothing else;
\* every execution of tx is dispatched with the value the counter then has, which
\* is higher than the incarnation of every execution of tx dispatched before
C27_IncarnationCounter ==
    /\ [](pc = "new" => \A tx \in Tx : pe.txIncarnations[tx] = 0)
    /\ [][/\ \A tx \in Tx :
                pe'.txIncarnations[tx] =
                    pe.txIncarnations[tx] + ProcessedAborts(tx) + ProcessedFailures(tx)
          /\ \A v \in NewlyDispatched :
                /\ v.inc = pe'.txIncarnations[v.tx]
                /\ v.inc > LastIncarnation(v.tx)]_vars

\* an execution at incarnation 2 is dispatched for a transaction that has
\* aborted and has failed validation
C27_Witness ==
    \E tx \in Tx :
        /\ tx \in obs.failed
        /\ obs.abortedInc[tx] >= 0
        /\ \E v \in Dispatched(tx) : v.inc >= 2 /\ v.inc = pe.txIncarnations[tx]

\* the record of tx in an input/output set
RecordOf(io, tx) == <<io.inputs[tx], io.outputs[tx], io.allOutputs[tx]>>

\* the Step handles the result of a successful execution
SuccessHandled == StepRan /\ ~IsAbort(Consumed)

\* the record of an execution-complete transaction is that of the incarnation
\* its worker finished last: no execution of it is under way, and the recorded
\* writes carry that incarnation
RecordOfLastIncarnation ==
    \A tx \in pe.execTasks.complete :
        /\ work[tx].st = "idle"
        /\ Dispatched(tx) = {} /\ ResultsOf(tx) = {}
        /\ \A w \in pe.lastTxIO.outputs[tx] \cup pe.lastTxIO.allOutputs[tx] :
               w.v = Version(tx, work[tx].inc)

\* C28: lastTxIO changes only when Step handles the result of a successful
\* execution of tx, and then only the record of tx changes, to the read-set,
\* write-set and all-write-set of that result, and tx becomes
\* execution-complete; so for every execution-complete transaction lastTxIO holds
\* what its most recent successful incarnation reported
C28_LatestIncarnationRecorded ==
    /\ []RecordOfLastIncarnation
    /\ [][IF SuccessHandled
          THEN /\ RecordOf(pe'.lastTxIO, Consumed.ver.tx) =
                     <<Consumed.txIn, Consumed.txOut, Consumed.txAllOut>>
               /\ \A tx \in Tx \ {Consumed.ver.tx} :
                     RecordOf(pe'.lastTxIO, tx) = RecordOf(pe.lastTxIO, tx)
               /\ Consumed.ver.tx \in Handled.execTasks.complete
          ELSE pe'.lastTxIO = pe.lastTxIO]_vars

\* an execution-complete transaction whose record is that of a re-execution
\* which read a write of a lower transaction
C28_Witness ==
    \E tx \in pe.execTasks.complete :
        /\ work[tx].st = "idle" /\ work[tx].inc > 0
        /\ \E w \in pe.lastTxIO.allOutputs[tx] : w.v = Version(tx, work[tx].inc)
        /\ \E rd \in pe.lastTxIO.inputs[tx] : rd.kind = "map"

\* the indices for which Settle has been dispatched
SettleDispatched == 0 .. pe.lastSettled

\* an index whose Settle is dispatched is validated and executed, is not
\* blocked, waits for no execution and no validation, has no execution queued,
\* running or reported, and none of its writes is marked ESTIMATE
SettledIsFinal(i) ==
    /\ i \in pe.validateTasks.complete
    /\ i \in pe.execTasks.complete
    /\ ~isBlocked(pe.execTasks, i)
    /\ i \notin pe.execTasks.pending \cup pe.execTasks.inProgress
    /\ i \notin pe.validateTasks.pending \cup pe.validateTasks.inProgress
    /\ Dispatched(i) = {} /\ ResultsOf(i) = {}
    /\ work[i].st = "idle"
    /\ \A k \in Keys : pe.mvh[k][i] # Estimate

\* C29: Settle is dispatched for i only when i is validation-complete,
\* execution-complete and not blocked, and from then on i is not executed, has
\* no write marked ESTIMATE, is not pending validation and keeps its incarnation
\* and its recorded input/output, whatever the higher indices do
C29_SettledIsFinal ==
    /\ [](\A i \in SettleDispatched : SettledIsFinal(i))
    /\ [][/\ pe'.lastSettled >= pe.lastSettled
          /\ \A i \in SettleDispatched :
                /\ pe'.txIncarnations[i] = pe.txIncarnations[i]
                /\ RecordOf(pe'.lastTxIO, i) = RecordOf(pe.lastTxIO, i)
                /\ work'[i] = work[i]]_vars

\* two indices are settled, the second after a re-execution, while a higher
\* index is being executed again on the speculative lane
C29_Witness ==
    /\ pe.lastSettled >= 1
    /\ \E i \in SettleDispatched : pe.txIncarnations[i] > 0
    /\ \E j \in Tx : /\ j > pe.lastSettled
                     /\ work[j].st # "idle" /\ work[j].lane = "spec"
                     /\ pe.txIncarnations[j] > 0

\* the executions queued, running, or waiting with their result
InFlight == UNION {Dispatched(tx) : tx \in Tx} \cup {r.ver : r \in pe.resultQueue}

\* nothing is left to dispatch or to wait for, and the block is not done
NothingToRun ==
    /\ pe.execTasks.pending = {}
    /\ pe.execTasks.inProgress = {}
    /\ pe.execTasks.complete # Tx

\* C30: whenever Prepare or a Step that has not returned the final result hands
\* over to the loop over chResults, the speculative dispatch loop has ended and
\* at least one execution is queued, running or waiting with its result; no
\* state has no index pending, none in progress and some index not complete
C30_NoStuckState ==
    /\ pc # "spin"
    /\ pc = "loop" => InFlight # {} /\ ~NothingToRun

\* C31: every dependency recorded for a transaction tx names a blocker index
\* in [0, tx): never tx itself, a higher index or a negative index
C31_DependencyTargetsValid ==
    \A d \in pe.execTasks.dependency : 0 <= d[1] /\ d[1] < d[2]

\* the dependencies the step has removed
ReleasedDependencies == pe.execTasks.dependency \ pe'.execTasks.dependency

\* the transactions the step has taken from blocked back to pending or to a
\* worker
Unblocked ==
    {u \in Tx : /\ isBlocked(pe.execTasks, u)
                /\ u \in pe'.execTasks.pending \cup pe'.execTasks.inProgress}

\* C32: a dependency is removed, and a blocked transaction goes back to
\* pending, only in a Step in which the blocker has completed execution; the
\* handling of an abort of tx releases no transaction blocked on an index that
\* has not completed execution
C32_NoPrematureRelease ==
    [][/\ \A d \in ReleasedDependencies :
             StepRan /\ d[1] \in Handled.execTasks.complete
       /\ \A u \in Unblocked :
             StepRan /\ blockers(pe.execTasks, u) \subseteq Handled.execTasks.complete]_vars

\* the number of executions of tx queued on chTasks or on the speculative
\* queue, running in a worker, or waiting in the result queue
InFlightCount(tx) ==
    Cardinality({i \in 1 .. Len(pe.chTasks) : pe.chTasks[i].tx = tx})
      + Cardinality({v \in pe.specTaskQueue : v.tx = tx})
      + (IF work[tx].st = "idle" THEN 0 ELSE 1)
      + Cardinality(ResultsOf(tx))

\* what the step has left of the executions of tx that were in flight
StillInFlight(tx) ==
    InFlightCount(tx) - Cardinality(ResultsOf(tx) \ pe'.resultQueue)

\* C33: for every transaction index at most one execution is queued on chTasks
\* or on the speculative queue, running in a worker or waiting in the result
\* queue; no worker starts an execution of a transaction that is being executed,
\* and an execution is dispatched only when none of its transaction is left in
\* flight
C33_OneExecutionInFlight ==
    /\ [](\A tx \in Tx : InFlightCount(tx) <= 1)
    /\ []NoOverlap
    /\ [][/\ \A v \in NewlyDispatched : StillInFlight(v.tx) = 0
          /\ Len(pe'.chTasks) + Cardinality(pe'.specTaskQueue) <=
                Len(pe.chTasks) + Cardinality(pe.specTaskQueue)
                  + Cardinality(NewlyDispatched)]_vars

\* three transactions in flight at once, one queued for the speculative
\* workers, one running again after an abort, one with its result waiting
C33_Witness ==
    \E a, b, c \in Tx :
        /\ \E v \in pe.specTaskQueue : v.tx = a
        /\ b # a /\ work[b].st # "idle" /\ pe.txIncarnations[b] > 0
        /\ c # a /\ c # b /\ ResultsOf(c) # {}

\* C40: SafePriorityQueue.Pop is never called on an empty queue: whenever the
\* control loop can receive a token of chResults the result queue holds a
\* result, every speculative worker that holds a token of chSpeculativeTasks
\* has an entry of specTaskQueue to pop, and no worker has popped the empty
\* queue
C40_PopsMatched ==
    /\ ~obs.emptyPop
    /\ pe.chResults <= Cardinality(pe.resultQueue)
    /\ pe.specReceived + pe.chSpeculativeTasks = Cardinality(pe.specTaskQueue)

\* a speculative worker holds a token before its Pop, a second token is on
\* the channel, and the control loop has a result to pop
C40_Witness ==
    /\ pe.specReceived = 1
    /\ pe.chSpeculativeTasks = 1
    /\ Cardinality(pe.specTaskQueue) = 2
    /\ pe.chResults > 0
    /\ pc = "loop"

\* a call of Put, Delete or Write on the caller's batch
BatchCall ==
    \/ \E key \in DbKeys, value \in Values : BatchPut(key, value)
    \/ \E key \in DbKeys : BatchDelete(key)
    \/ BatchWrite

\* C39: a Write that returns nil closes the batch; the batch stays closed until
\* Reset, and every Put, Delete or Write on a closed batch returns
\* errBatchClosed and changes neither the batch nor the block height; Reset
\* leaves an open batch of size 0, on which Put and Delete return nil; a Write
\* of an open batch on a closed database returns errDBClosed and leaves the
\* block height unchanged
C39_BatchLifecycle ==
    /\ [][(qm.st # "none" /\ qm'.lastErr = "nil" /\ ~qm.batch.closed /\ BatchWrite) =>
            qm'.batch.closed]_vars
    /\ [][(qm.st # "none" /\ qm.batch.closed /\ ~BatchReset) => qm'.batch.closed]_vars
    /\ [][(qm.batch.closed /\ BatchCall) =>
            /\ qm'.lastErr = "errBatchClosed"
            /\ qm'.batch = qm.batch
            /\ qm'.blockHeight = qm.blockHeight]_vars
    /\ [][BatchReset => qm'.batch.size = 0 /\ ~qm'.batch.closed]_vars
    /\ [][(~qm.batch.closed /\ ((\E key \in DbKeys, value \in Values : BatchPut(key, value))
                                  \/ \E key \in DbKeys : BatchDelete(key))) =>
            qm'.lastErr = "nil" /\ qm'.batch.size > qm.batch.size]_vars
    /\ [][(qm.st = "closed" /\ ~qm.batch.closed /\ BatchWrite) =>
            /\ qm'.lastErr = "errDBClosed"
            /\ qm'.blockHeight = qm.blockHeight]_vars

\* a batch of two operations was written, and a call on it has returned
\* errBatchClosed
C39_Witness ==
    /\ qm.st = "open"
    /\ qm.batch.closed
    /\ qm.batch.size > 2
    /\ qm.blockHeight = 1
    /\ qm.lastErr = "errBatchClosed"

\* a Write on the closed database has returned errDBClosed
C39_WitnessClosed ==
    /\ qm.st = "closed"
    /\ ~qm.batch.closed
    /\ qm.batch.size > 0
    /\ qm.lastErr = "errDBClosed"

(***************************************************************************)
(* The dependency graph of a block (package blockstm): HasReadDep, GetDep,  *)
(* BuildDAG and DAG.LongestPath.  A TxnInput and a TxnOutput are reduced to  *)
(* the set of the paths of their descriptors, the only field these          *)
(* functions read.                                                          *)
(***************************************************************************)
DagTasks == 3
DagKeys == 2
MaxDuration == 1

DagKey == 1 .. DagKeys

\* the write list and the full write list a task may report for one execution
WriteLists == {w \in (SUBSET DagKey) \X (SUBSET DagKey) : w[1] \subseteq w[2]}

\* the TxnInputOutput of a block: the read list rd[t] and the write lists w[t]
\* recorded for each transaction t
TxnInputOutput(rd, w) ==
    [inputs |-> rd,
     outputs |-> [t \in DOMAIN w |-> w[t][1]],
     allOutputs |-> [t \in DOMAIN w |-> w[t][2]]]

\* an ExecutionStat, of which only Start and End are read
ExecutionStat ==
    {st \in [Start : 0 .. MaxDuration, End : 0 .. MaxDuration] : st.Start <= st.End}

\* mutant: any write of txFrom and any read of txTo make a read dependency
HasReadDepAnyPath(txFrom, txTo) == txFrom # {} /\ txTo # {}

HasReadDep(txFrom, txTo) ==
    LET reads == txTo
    IN \E rd \in txFrom : rd \in reads

\* the inner loop of GetDep for j, j - 1, ..., 0
RECURSIVE GetDepRow(_, _, _)
GetDepRow(deps, i, j) ==
    IF j < 0 THEN <<>>
    ELSE (IF HasReadDep(deps.allOutputs[j], deps.inputs[i]) THEN <<j>> ELSE <<>>)
            \o GetDepRow(deps, i, j - 1)

GetDep(deps) ==
    LET n == Cardinality(DOMAIN deps.inputs)
        row == [i \in 1 .. n - 1 |-> GetDepRow(deps, i, i - 1)]
    IN [i \in {x \in 1 .. n - 1 : row[x] # <<>>} |-> row[i]]

\* the graph as the set of its vertices and the set of its edges <<from, to>>
BuildDAG(deps) ==
    LET n == Cardinality(DOMAIN deps.inputs)
        edges == {e \in (0 .. n - 1) \X (1 .. n - 1) :
                    e[1] < e[2] /\ HasReadDep(deps.allOutputs[e[1]], deps.inputs[e[2]])}
    IN [vertices |-> (1 .. n - 1) \cup {e[1] : e \in edges}, edges |-> edges]

\* d.GetParents(idxToId[i]): no parent, and an error that is dropped, when i is
\* not a vertex
GetParents(d, i) ==
    IF i \in d.vertices THEN {e[1] : e \in {x \in d.edges : x[2] = i}} ELSE {}

Duration(stats, i) == stats[i].End - stats[i].Start

MaxOf(S) == CHOOSE x \in S : \A y \in S : y <= x

\* pathWeights after the loop over i = 0 .. len(idxToId) - 1
PathWeights(d, stats) ==
    LET pathWeights[i \in 0 .. Cardinality(d.vertices) - 1] ==
            IF GetParents(d, i) = {} THEN Duration(stats, i)
            ELSE MaxOf({pathWeights[p] + Duration(stats, i) : p \in GetParents(d, i)}
                         \cup {0})
    IN pathWeights

\* prev after that loop: the parents are visited in the order of a Go map, and
\* the first one that gives the largest weight stays
PrevMaps(d, stats) ==
    LET pw == PathWeights(d, stats)
        last == [i \in DOMAIN pw |->
                    IF GetParents(d, i) = {} \/ pw[i] = 0 THEN {-1}
                    ELSE {p \in GetParents(d, i) : pw[p] + Duration(stats, i) = pw[i]}]
    IN {prev \in [DOMAIN pw -> UNION {last[i] : i \in DOMAIN pw}] :
            \A i \in DOMAIN pw : prev[i] \in last[i]}

RECURSIVE Walk(_, _)
Walk(prev, i) == IF i = -1 THEN <<>> ELSE Walk(prev, prev[i]) \o <<i>>

\* LongestPath for one order of the parents.  With no vertex the map prev is
\* empty, prev[0] reads as 0 and the loop that collects the path never ends.
LongestPath(d, stats, prev) ==
    LET pw == PathWeights(d, stats)
        maxPathWeight == MaxOf({pw[i] : i \in DOMAIN pw} \cup {0})
        maxPath == IF maxPathWeight = 0 THEN 0
                   ELSE CHOOSE i \in DOMAIN pw :
                          pw[i] = maxPathWeight /\ \A x \in DOMAIN pw : x < i => pw[x] < pw[i]
    IN IF maxPath \notin DOMAIN prev
       THEN [returns |-> FALSE, path |-> <<>>, weight |-> 0]
       ELSE [returns |-> TRUE, path |-> Walk(prev, maxPath), weight |-> maxPathWeight]

NoTxIO == [inputs |-> <<>>, outputs |-> <<>>, allOutputs |-> <<>>]
NoDAG == [vertices |-> {}, edges |-> {}]
NoPath == [returns |-> FALSE, path |-> <<>>, weight |-> 0]

InitDAG ==
    /\ InitExecutor({NewParallelExecutor(EmptyTasks, FALSE)})
    /\ ss = NotCalled
    /\ qm = NotCreated
    /\ hws = NotConnected
    /\ fb = NotSearching
    /\ \E n \in 0 .. DagTasks :
       \E rd \in [0 .. n - 1 -> SUBSET DagKey], w \in [0 .. n - 1 -> WriteLists] :
          dg = [dpc |-> "new", io |-> TxnInputOutput(rd, w), allDeps |-> <<>>,
                dag |-> NoDAG, stats |-> <<>>, longest |-> NoPath]

CallGetDep ==
    /\ dg.dpc = "new"
    /\ dg' = [dg EXCEPT !.dpc = "deps", !.allDeps = GetDep(dg.io)]
    /\ UNCHANGED besideDAG

CallBuildDAG ==
    /\ dg.dpc = "deps"
    /\ dg' = [dg EXCEPT !.dpc = "dag", !.dag = BuildDAG(dg.io)]
    /\ UNCHANGED besideDAG

\* d.LongestPath(stats) on a graph built by BuildDAG, with any stats map
CallLongestPath ==
    /\ dg.dpc = "dag"
    /\ \E stats \in [0 .. DagTasks - 1 -> ExecutionStat] :
       \E prev \in PrevMaps(dg.dag, stats) :
          LET r == LongestPath(dg.dag, stats, prev)
          IN dg' = [dg EXCEPT !.dpc = IF r.returns THEN "path" ELSE "hang",
                              !.stats = stats, !.longest = r]
    /\ UNCHANGED besideDAG

NextDAG ==
    \/ CallGetDep
    \/ CallBuildDAG

SpecDAG == InitDAG /\ [][NextDAG]_vars

\* LongestPath on every graph BuildDAG produces
InitLongestPath ==
    /\ InitExecutor({NewParallelExecutor(EmptyTasks, FALSE)})
    /\ ss = NotCalled
    /\ qm = NotCreated
    /\ hws = NotConnected
    /\ fb = NotSearching
    /\ \E n \in 0 .. DagTasks :
       \E rd \in [0 .. n - 1 -> SUBSET DagKey], w \in [0 .. n - 1 -> WriteLists] :
          dg = [dpc |-> "dag", io |-> NoTxIO, allDeps |-> <<>>,
                dag |-> BuildDAG(TxnInputOutput(rd, w)),
                stats |-> <<>>, longest |-> NoPath]

NextLongestPath == CallLongestPath

SpecLongestPath == InitLongestPath /\ [][NextLongestPath]_vars

\* the indices below i one of whose recorded write sets shares a key with the
\* read set of i
SharesWith(sets, i) == {j \in 0 .. i - 1 : sets[j] \cap dg.io.inputs[i] # {}}

\* the map and the graph name exactly the pairs that share a key in sets
DependencyMapOf(sets) ==
    /\ dg.dpc \in {"deps", "dag"} =>
          /\ DOMAIN dg.allDeps = {i \in DOMAIN dg.io.inputs : SharesWith(sets, i) # {}}
          /\ \A i \in DOMAIN dg.allDeps :
                /\ {dg.allDeps[i][x] : x \in DOMAIN dg.allDeps[i]} = SharesWith(sets, i)
                /\ Len(dg.allDeps[i]) = Cardinality(SharesWith(sets, i))
    /\ dg.dpc = "dag" =>
          dg.dag.edges = {e \in (DOMAIN dg.io.inputs) \X (DOMAIN dg.io.inputs) :
                             e[1] \in SharesWith(sets, e[2])}

PathsOfDAG(d) ==
    {S \in SUBSET d.vertices :
        /\ S # {}
        /\ \A a \in S : \A b \in S :
              (a < b /\ \A c \in S : ~(a < c /\ c < b)) => <<a, b>> \in d.edges}

RECURSIVE SumDurations(_, _)
SumDurations(stats, S) ==
    IF S = {} THEN 0
    ELSE LET i == CHOOSE x \in S : TRUE
         IN Duration(stats, i) + SumDurations(stats, S \ {i})

\* C35: LongestPath returns transaction indices in ascending order, each
\* consecutive pair an edge of the graph, with a weight that is the sum of
\* End - Start over them and the largest weight of a path of the graph, also
\* when transaction 0 is not a vertex of the graph
C35_CriticalPath ==
    /\ dg.dpc # "hang"
    /\ dg.dpc = "path" =>
          LET path == dg.longest.path
          IN /\ \A x \in 1 .. Len(path) - 1 :
                   path[x] < path[x + 1] /\ <<path[x], path[x + 1]>> \in dg.dag.edges
             /\ dg.longest.weight = SumDurations(dg.stats, Range(path))
             /\ \A S \in PathsOfDAG(dg.dag) :
                   SumDurations(dg.stats, S) <= dg.longest.weight
             /\ PathsOfDAG(dg.dag) # {} => Range(path) \in PathsOfDAG(dg.dag)

(***************************************************************************)
(* HeimdallWSClient (package heimdallws): one subscription per event type, *)
(* a read goroutine that reconnects when a read fails, and the callers of  *)
(* Unsubscribe and Close.  A connection and the done channel made with it  *)
(* are named by the number of the Dial that made them; 0 is nil.  The      *)
(* sleep between two attempts to connect takes no step.                    *)
(***************************************************************************)
MaxDials == 2

MilestoneEventType == "milestone"

\* eventSubscription, and its zero value
eventSubscription(conn, done) == [conn |-> conn, done |-> done]
NilSub == eventSubscription(0, 0)

NewHeimdallWSClient ==
    [subscriptions |-> [e \in {} |-> NilSub],
     done          |-> FALSE,       \* c.done is closed
     ctxDone       |-> FALSE,       \* the subscriber's context is cancelled
     connClosed    |-> {},          \* the connections that were closed
     doneClosed    |-> {},          \* the done channels that were closed
     dials         |-> 0,
     rpc           |-> "idle",      \* where the subscriber, then the reader, is
     back          |-> "spawn",     \* where tryUntilSubscribeHeimdallEvents returns to
     rsub          |-> NilSub,      \* the reader's sub
     rconn         |-> 0,           \* conn of tryUntilSubscribeHeimdallEvents
     eventsClosed  |-> FALSE,
     upc           |-> "idle",      \* where the caller of Unsubscribe is
     usub          |-> NilSub,      \* Unsubscribe's sub
     cpc           |-> "idle",      \* where the caller of Close is
     late          |-> {}]          \* what the reader did after Unsubscribe returned

GetSubscription(c, eventName) ==
    IF eventName \in DOMAIN c.subscriptions
    THEN [sub |-> c.subscriptions[eventName], ok |-> TRUE]
    ELSE [sub |-> NilSub, ok |-> FALSE]

\* a receive from a done channel is ready once it is closed; never on nil
IsClosed(c, done) == done \in c.doneClosed

\* Unsubscribe has returned after closing a subscription it found
Unsubscribed(c) == c.upc = "returned" /\ c.usub # NilSub
Late(c, what) == IF Unsubscribed(c) THEN c.late \cup {what} ELSE c.late

\* the return of tryUntilSubscribeHeimdallEvents: to SubscribeMilestoneEvents,
\* which starts the reader, or to the reader, which gets its subscription again
TryReturn(c) == IF c.back = "spawn" THEN "get" ELSE "reget"

\* SubscribeMilestoneEvents, up to its call of tryUntilSubscribeHeimdallEvents
SubscribeMilestoneEvents ==
    /\ hws.rpc = "idle"
    /\ hws' = [hws EXCEPT !.rpc = "try_check", !.back = "spawn"]
    /\ UNCHANGED besideWS

\* tryUntilSubscribeHeimdallEvents: the check for cancellation
TryCheck ==
    /\ hws.rpc = "try_check"
    /\ hws' = [hws EXCEPT !.rpc = IF hws.ctxDone \/ hws.done
                                  THEN TryReturn(hws) ELSE "try_get"]
    /\ UNCHANGED besideWS

\* tryUntilSubscribeHeimdallEvents: the check of the subscription's done
TryGet ==
    /\ hws.rpc = "try_get"
    /\ LET g == GetSubscription(hws, MilestoneEventType) IN
       hws' = [hws EXCEPT !.rpc = IF g.ok /\ IsClosed(hws, g.sub.done)
                                  THEN TryReturn(hws) ELSE "try_dial"]
    /\ UNCHANGED besideWS

\* tryUntilSubscribeHeimdallEvents: Dial, which may fail
TryDial(err) ==
    /\ hws.rpc = "try_dial"
    /\ hws.dials < MaxDials
    /\ hws' = [hws EXCEPT !.dials = @ + 1,
                          !.rconn = IF err THEN 0 ELSE hws.dials + 1,
                          !.rpc = IF err THEN "try_check" ELSE "try_write",
                          !.late = Late(hws, "dial")]
    /\ UNCHANGED besideWS

\* tryUntilSubscribeHeimdallEvents: WriteJSON of the request, which may fail
TryWrite(err) ==
    /\ hws.rpc = "try_write"
    /\ hws' = [hws EXCEPT !.rpc = IF err THEN "try_check" ELSE "try_register"]
    /\ UNCHANGED besideWS

\* tryUntilSubscribeHeimdallEvents: the subscription is registered
TryRegister ==
    /\ hws.rpc = "try_register"
    /\ hws' = [hws EXCEPT
           !.subscriptions = [e \in DOMAIN @ \cup {MilestoneEventType} |->
                                 IF e = MilestoneEventType
                                 THEN eventSubscription(hws.rconn, hws.rconn)
                                 ELSE @[e]],
           !.rpc = TryReturn(hws),
           !.late = Late(hws, "register")]
    /\ UNCHANGED besideWS

\* readMilestoneMessages: the subscription at the start of the goroutine
ReadGet ==
    /\ hws.rpc = "get"
    /\ LET g == GetSubscription(hws, MilestoneEventType) IN
       hws' = IF ~g.ok \/ g.sub.conn = 0
              THEN [hws EXCEPT !.rsub = g.sub, !.rpc = "try_check", !.back = "reget"]
              ELSE [hws EXCEPT !.rsub = g.sub, !.rpc = "select"]
    /\ UNCHANGED besideWS

\* readMilestoneMessages: sub, _ = c.GetSubscription after a reconnection
ReadReget ==
    /\ hws.rpc = "reget"
    /\ hws' = [hws EXCEPT !.rsub = GetSubscription(hws, MilestoneEventType).sub,
                          !.rpc = "select"]
    /\ UNCHANGED besideWS

\* readMilestoneMessages: the select at the head of the loop
ReadSelect ==
    /\ hws.rpc = "select"
    /\ hws' = IF hws.ctxDone \/ hws.done \/ IsClosed(hws, hws.rsub.done)
              THEN [hws EXCEPT !.rpc = "exited", !.eventsClosed = TRUE]
              ELSE [hws EXCEPT !.rpc = "read"]
    /\ UNCHANGED besideWS

\* what ReadMessage can return: an error on a closed connection; on an open
\* one a message, a message of another format, or an error
ReadOutcomes(c) ==
    IF c.rsub.conn \in c.connClosed THEN {"err"} ELSE {"message", "skip", "err"}

\* readMilestoneMessages: SetReadDeadline and ReadMessage on sub.conn
ReadMessage(out) ==
    /\ hws.rpc = "read"
    /\ IF hws.rsub.conn = 0
       THEN /\ out = "err"
            /\ hws' = [hws EXCEPT !.rpc = "panic", !.eventsClosed = TRUE,
                                  !.late = Late(hws, "nil")]
       ELSE /\ out \in ReadOutcomes(hws)
            /\ hws' = [hws EXCEPT !.rpc = CASE out = "err" -> "try_check"
                                            [] out = "skip" -> "select"
                                            [] OTHER -> "deliver",
                                  !.back = "reget"]
    /\ UNCHANGED besideWS

\* readMilestoneMessages: the event is received, or the context is cancelled
ReadDeliver(sent) ==
    /\ hws.rpc = "deliver"
    /\ sent \/ hws.ctxDone
    /\ hws' = IF sent THEN [hws EXCEPT !.rpc = "select"]
              ELSE [hws EXCEPT !.rpc = "exited", !.eventsClosed = TRUE]
    /\ UNCHANGED besideWS

\* Unsubscribe: the subscription is looked up
UnsubscribeGet ==
    /\ hws.upc = "idle"
    /\ hws.rpc # "idle"
    /\ LET g == GetSubscription(hws, MilestoneEventType) IN
       hws' = [hws EXCEPT !.usub = g.sub,
                          !.upc = IF g.ok THEN "close" ELSE "returned"]
    /\ UNCHANGED besideWS

\* Unsubscribe: sub.conn.Close()
UnsubscribeCloseConn ==
    /\ hws.upc = "close"
    /\ hws' = [hws EXCEPT !.connClosed = @ \cup {hws.usub.conn}, !.upc = "signal"]
    /\ UNCHANGED besideWS

\* Unsubscribe: close(sub.done), a panic on a channel already closed
UnsubscribeSignal ==
    /\ hws.upc = "signal"
    /\ hws' = IF IsClosed(hws, hws.usub.done)
              THEN [hws EXCEPT !.upc = "panic"]
              ELSE [hws EXCEPT !.doneClosed = @ \cup {hws.usub.done}, !.upc = "delete"]
    /\ UNCHANGED besideWS

\* Unsubscribe: the subscription is deleted
UnsubscribeDelete ==
    /\ hws.upc = "delete"
    /\ hws' = [hws EXCEPT
           !.subscriptions = [e \in DOMAIN @ \ {MilestoneEventType} |-> @[e]],
           !.upc = "returned"]
    /\ UNCHANGED besideWS

\* Close, under the client's lock
Close ==
    /\ hws.cpc = "idle"
    /\ hws.rpc # "idle"
    /\ LET subs == {hws.subscriptions[e] : e \in DOMAIN hws.subscriptions} IN
       hws' = IF \E u \in subs : IsClosed(hws, u.done)
              THEN [hws EXCEPT !.done = TRUE, !.cpc = "panic",
                               !.connClosed = @ \cup {u.conn : u \in subs}]
              ELSE [hws EXCEPT !.done = TRUE, !.cpc = "returned",
                               !.connClosed = @ \cup {u.conn : u \in subs},
                               !.doneClosed = @ \cup {u.done : u \in subs}]
    /\ UNCHANGED besideWS

\* the subscriber cancels its context
Cancel ==
    /\ hws.rpc # "idle"
    /\ ~hws.ctxDone
    /\ hws' = [hws EXCEPT !.ctxDone = TRUE]
    /\ UNCHANGED besideWS

tryUntilSubscribeHeimdallEvents ==
    \/ TryCheck
    \/ TryGet
    \/ \E err \in BOOLEAN : TryDial(err)
    \/ \E err \in BOOLEAN : TryWrite(err)
    \/ TryRegister

readMilestoneMessages ==
    \/ ReadGet
    \/ ReadReget
    \/ ReadSelect
    \/ \E out \in {"message", "skip", "err"} : ReadMessage(out)
    \/ \E sent \in BOOLEAN : ReadDeliver(sent)

Unsubscribe ==
    \/ UnsubscribeGet
    \/ UnsubscribeCloseConn
    \/ UnsubscribeSignal
    \/ UnsubscribeDelete

NextWS ==
    \/ SubscribeMilestoneEvents
    \/ tryUntilSubscribeHeimdallEvents
    \/ readMilestoneMessages
    \/ Unsubscribe
    \/ Close
    \/ Cancel

InitWS ==
    /\ InitExecutor({NewParallelExecutor(EmptyTasks, FALSE)})
    /\ ss = NotCalled
    /\ qm = NotCreated
    /\ hws = NewHeimdallWSClient
    /\ dg = NotBuilt
    /\ fb = NotSearching

SpecWS == InitWS /\ [][NextWS]_vars

\* the reader goes on whenever it can, and Unsubscribe runs to its end
FairnessWS ==
    /\ WF_vars(tryUntilSubscribeHeimdallEvents)
    /\ WF_vars(readMilestoneMessages)
    /\ WF_vars(Unsubscribe)

LiveSpecWS == SpecWS /\ FairnessWS

\* the reader has returned and closed its events channel
ReaderExited == hws.rpc = "exited" /\ hws.eventsClosed

\* C21: once Unsubscribe has returned, having closed the subscription of the
\* event type, the reader of that event type dials no connection, registers no
\* subscription and uses no nil connection
C21_UnsubscribeStopsReader ==
    Unsubscribed(hws) => hws.late = {}

\* once Unsubscribe has returned, the reader eventually exits
UnsubscribeReaderExits == Unsubscribed(hws) ~> ReaderExited
====
